---------------------------- MODULE Spec2Model ----------------------------
(***************************************************************************)
(* A model of the VAST 2.0 entity factories (vast/models/vast_v2.py), the  *)
(* validator helpers (vast/validators.py) and the version 2 parser         *)
(* (vast/parsers/vast_v2.py, vast/parsers/xml_parser.py).                  *)
(*                                                                         *)
(* The library is a set of pure functions.  Every factory call and every   *)
(* parser call is one action: it draws its raw input from a small set,     *)
(* runs the whole call and records what the caller observes (the value     *)
(* returned, or the exception raised).                                     *)
(***************************************************************************)
EXTENDS Integers, Sequences, FiniteSets, TLC

VARIABLES
    op,        \* the call that was made last ("idle" before a call)
    args,      \* the raw arguments of that call
    instance,  \* the converted candidate instance built inside make
    returned,  \* the value the caller received (NoneV when the call raised)
    raised,    \* the exception the caller received (NoExc when it returned)
    again,     \* the outcome of calling the same factory once more
    assigned,  \* the outcome of assigning to an attribute of the entity
    applied,   \* the primitive validators a validator call applied, in order
    threads,   \* the frame of each concurrent caller of MediaFile.make
    cls_VALIDATORS  \* the class attribute MediaFile.VALIDATORS, which callers share

vars == <<op, args, instance, returned, raised, again, assigned, applied, threads, cls_VALIDATORS>>

-----------------------------------------------------------------------------
(* Bounds of the model.                                                    *)

\* the largest number of media files of one Linear
MaxMediaFiles == 3

-----------------------------------------------------------------------------
(* Python values.  Every value is a tagged record, so that values of       *)
(* different Python types can be compared.                                 *)

NoneV == [t |-> "none"]
Str(s) == [t |-> "str", s |-> s]
IntV(i) == [t |-> "int", i |-> i]
BoolV(b) == [t |-> "bool", b |-> b]
\* a member of an Enum class, with the value it was declared with
EnumV(cls, name, value) == [t |-> "enum", cls |-> cls, name |-> name, value |-> value]
ListV(items) == [t |-> "list", items |-> items]
\* an attrs instance of class cls with the attributes f (a record)
Entity(cls, f) == [t |-> "entity", cls |-> cls, f |-> f]

IsNone(v) == v.t = "none"
IsEntityOf(v, cls) == v.t = "entity" /\ v.cls = cls

\* the outcome of a call: a returned value, or an exception
NoExc == [t |-> "none"]
Ok(v) == [ret |-> v, exc |-> NoExc]
Raise(e) == [ret |-> NoneV, exc |-> e]
Failed(o) == o.exc # NoExc

\* one violation message: the text of the source, the attribute it is about
\* and the values formatted into it
Msg(text, field, vals) == [msg |-> text, field |-> field, vals |-> vals]
ValidationError(cls, violations) ==
    [t |-> "ValidationError", cls |-> cls, violations |-> violations]
Fault(kind, what) == [t |-> kind, what |-> what]

-----------------------------------------------------------------------------
(* Sequences.                                                              *)

RECURSIVE Flatten(_)
Flatten(ss) == IF ss = <<>> THEN <<>> ELSE Head(ss) \o Flatten(Tail(ss))

Range(s) == {s[i] : i \in DOMAIN s}


\* the element of a set of one element; {F(v) : v \in {e}} computes e once
Only(S) == CHOOSE x \in S : TRUE

-----------------------------------------------------------------------------
(* The enumerations.                                                       *)

Delivery ==
    { EnumV("Delivery", "STREAMING", "streaming"),
      EnumV("Delivery", "PROGRESSIVE", "progressive") }

ApiFramework == { EnumV("ApiFramework", "VPAID", "VPAID") }

MimeType ==
    { EnumV("MimeType", "MP4", "video/mp4"),
      EnumV("MimeType", "JS", "application/javascript"),
      EnumV("MimeType", "FLASH", "application/x-shockwave-flash"),
      EnumV("MimeType", "WEBM", "video/webm"),
      EnumV("MimeType", "GPP", "video/3gpp"),
      EnumV("MimeType", "MPEG", "application/x-mpegURL") }

TrackingEventType ==
    { EnumV("TrackingEventType", "CREATIVE_VIEW", "creativeView"),
      EnumV("TrackingEventType", "START", "start"),
      EnumV("TrackingEventType", "FIRST_QUARTILE", "firstQuartile"),
      EnumV("TrackingEventType", "MID_POINT", "midpoint"),
      EnumV("TrackingEventType", "THIRD_QUARTILE", "thirdQuartile"),
      EnumV("TrackingEventType", "COMPLETE", "complete"),
      EnumV("TrackingEventType", "MUTE", "mute"),
      EnumV("TrackingEventType", "UNMUTE", "unmute"),
      EnumV("TrackingEventType", "PAUSE", "pause"),
      EnumV("TrackingEventType", "REWIND", "rewind"),
      EnumV("TrackingEventType", "RESUME", "resume"),
      EnumV("TrackingEventType", "FULL_SCREEN", "fullscreen"),
      EnumV("TrackingEventType", "EXPAND", "expand"),
      EnumV("TrackingEventType", "COLLAPSE", "collapse"),
      EnumV("TrackingEventType", "ACCEPT_INVITATION", "acceptInvitation"),
      EnumV("TrackingEventType", "CLOSE", "close") }

EnumMembers(cls) ==
    CASE cls = "Delivery" -> Delivery
      [] cls = "ApiFramework" -> ApiFramework
      [] cls = "MimeType" -> MimeType
      [] cls = "TrackingEventType" -> TrackingEventType

Member(cls, name) == CHOOSE m \in EnumMembers(cls) : m.name = name

\* the result of a conversion: the converted value, or a failure
Converted(v) == [ok |-> TRUE, v |-> v]
NotConverted == [ok |-> FALSE, v |-> NoneV]

\* a lookup that knows the declared values only, and no member
EnumCallByValueOnly(cls, v) ==
    IF v.t = "str" /\ \E m \in EnumMembers(cls) : m.value = v.s
    THEN Converted(CHOOSE m \in EnumMembers(cls) : m.value = v.s)
    ELSE NotConverted

\* Cls(v): a member of Cls is returned as it is, a declared value gives its
\* member, anything else is a ValueError
EnumCall(cls, v) ==
    IF v \in EnumMembers(cls) THEN Converted(v)
    ELSE IF v.t = "str" /\ \E m \in EnumMembers(cls) : m.value = v.s
    THEN Converted(CHOOSE m \in EnumMembers(cls) : m.value = v.s)
    ELSE NotConverted

-----------------------------------------------------------------------------
(* The conversions of the Converter declarations.                          *)

\* the integers the inputs of the model are written with
IntValues == {-1, 0, 1, 15, 51, 144, 176, 300, 900}

IsNumeral(s) == \E i \in IntValues : ToString(i) = s
ParseInt(s) == CHOOSE i \in IntValues : ToString(i) = s

\* unicode(v)
ToUnicode(v) ==
    CASE v.t = "str" -> Converted(v)
      [] v.t = "int" -> Converted(Str(ToString(v.i)))
      [] v.t = "bool" -> Converted(Str(IF v.b THEN "True" ELSE "False"))
      [] OTHER -> Converted(Str("<object>"))

\* int(v)
ToInt(v) ==
    CASE v.t = "int" -> Converted(v)
      [] v.t = "bool" -> Converted(IntV(IF v.b THEN 1 ELSE 0))
      [] v.t = "str" -> IF IsNumeral(v.s) THEN Converted(IntV(ParseInt(v.s)))
                        ELSE NotConverted
      [] OTHER -> NotConverted

\* the boolean parse of an attribute text
ToBool(v) ==
    CASE v.t = "bool" -> Converted(v)
      [] v.t = "str" /\ v.s = "true" -> Converted(BoolV(TRUE))
      [] v.t = "str" /\ v.s = "false" -> Converted(BoolV(FALSE))
      [] OTHER -> NotConverted

Convert(type, v) ==
    CASE type = "unicode" -> ToUnicode(v)
      [] type = "int" -> ToInt(v)
      [] type = "bool" -> ToBool(v)
      [] OTHER -> EnumCall(type, v)

-----------------------------------------------------------------------------
(* The declarations of vast/models/shared.py.                              *)

Converter(type, attr_names) == [type |-> type, attr_names |-> attr_names]
SomeOf_default_up_to == 1
SomeOf(attr_names, up_to) == [attr_names |-> attr_names, up_to |-> up_to]

\* the violations of the construction engine
MissingRequired(name) == <<Msg("missing required field", name, <<>>)>>
ConversionFailed(name) == <<Msg("conversion failed", name, <<>>)>>
NotOfClass(name) == <<Msg("must be of class", name, <<>>)>>
RECURSIVE JoinNames(_)
JoinNames(names) ==
    IF names = <<>> THEN ""
    ELSE IF Len(names) = 1 THEN names[1]
    ELSE names[1] \o "," \o JoinNames(Tail(names))
TooManyOf(group) ==
    <<Msg("more fields present than the group allows", JoinNames(group.attr_names),
          <<group.up_to>>)>>

\* the (type, attribute) pairs of the converters, in declaration order
RECURSIVE ConverterPairs(_)
ConverterPairs(cs) ==
    IF cs = <<>> THEN <<>>
    ELSE [i \in DOMAIN Head(cs).attr_names |->
             [type |-> Head(cs).type, name |-> Head(cs).attr_names[i]]]
         \o ConverterPairs(Tail(cs))

\* the conversion of attribute name of the arguments a
ConvertAttr(desc, a, name) ==
    LET ps == SelectSeq(desc.pairs, LAMBDA p : p.name = name)
    IN  IF ps = <<>> \/ IsNone(a[name]) THEN Converted(a[name])
        ELSE Convert(ps[1].type, a[name])

\* the attributes after conversion; a failed conversion leaves None
ConvertAll(desc, a) == [name \in DOMAIN a |-> ConvertAttr(desc, a, name).v]

\* whether value v is what the class rule r = (name, class, repeated) asks for
OfClass(r, v) ==
    IF r[3] THEN v.t = "list" /\ \A i \in DOMAIN v.items : IsEntityOf(v.items[i], r[2])
    ELSE IsEntityOf(v, r[2])

\* steps 1 to 4 of the construction on the arguments a, converted to c:
\* every violation, in order
StructuralViolations(desc, a, c) ==
    LET pairs == desc.pairs
    IN  Flatten([i \in DOMAIN desc.required |->
                    IF IsNone(a[desc.required[i]])
                    THEN <<MissingRequired(desc.required[i])>> ELSE <<>>])
        \o Flatten([i \in DOMAIN pairs |->
                    IF pairs[i].name \in DOMAIN a /\ ~IsNone(a[pairs[i].name])
                       /\ ~Convert(pairs[i].type, a[pairs[i].name]).ok
                    THEN <<ConversionFailed(pairs[i].name)>> ELSE <<>>])
        \o Flatten([i \in DOMAIN desc.classes |->
                    IF desc.classes[i][1] \in DOMAIN a
                       /\ ~IsNone(c[desc.classes[i][1]])
                       /\ ~OfClass(desc.classes[i], c[desc.classes[i][1]])
                    THEN <<NotOfClass(desc.classes[i][1])>> ELSE <<>>])
        \o Flatten([i \in DOMAIN desc.some_ofs |->
                    IF Cardinality({n \in Range(desc.some_ofs[i].attr_names) : ~IsNone(c[n])})
                       > desc.some_ofs[i].up_to
                    THEN <<TooManyOf(desc.some_ofs[i])>> ELSE <<>>])

\* step 6: the error when there is a violation, the instance otherwise
CheckedInstance(desc, c, vs) ==
    IF vs # <<>> THEN Raise(ValidationError(desc.name, vs))
    ELSE Ok(Entity(desc.name, c))

\* cls.check_and_convert(args_dict): the converted instance, or the error
check_and_convert(desc, args_dict) ==
    Only({ Only({ Only({ CheckedInstance(desc, c, vs) :
                         vs \in {StructuralViolations(desc, a, c)} }) :
                  c \in {ConvertAll(desc, a)} }) :
           a \in {args_dict} })

-----------------------------------------------------------------------------
(* The semantic validators.  A validator returns one message text (here    *)
(* the sequence of the messages joined into it), or None (here <<>>).      *)

\* validators.make_greater_then_validator(attr_name, bound, allow_none)
make_greater_then_validator(attr_name, bound, allow_none) ==
    [kind |-> "greater_then", attr |-> attr_name, bound |-> bound,
     allow_none |-> allow_none]

\* a bound that lets the bound itself through
greater_then_not_strict(v, inst) ==
    LET value == inst.f[v.attr]
    IN  IF IsNone(value)
        THEN IF v.allow_none THEN <<>>
             ELSE <<Msg("must be greater than", v.attr, <<v.bound>>)>>
        ELSE IF v.bound > value.i
             THEN <<Msg("must be greater than", v.attr, <<v.bound, value.i>>)>>
             ELSE <<>>

greater_then(v, inst) ==
    LET value == inst.f[v.attr]
    IN  IF IsNone(value)
        THEN IF v.allow_none THEN <<>>
             ELSE <<Msg("must be greater than", v.attr, <<v.bound>>)>>
        ELSE IF v.bound >= value.i
             THEN <<Msg("must be greater than", v.attr, <<v.bound, value.i>>)>>
             ELSE <<>>

\* a bitrate rule that checks the sign only
MediaFile_validate_bitrate_sign_only(inst) ==
    IF ~IsNone(inst.f.bitrate) /\ inst.f.bitrate.i < 0
    THEN <<Msg("media file bitrate must be > 0 but was %s", "bitrate",
               <<inst.f.bitrate.i>>)>>
    ELSE <<>>

MediaFile_validate_bitrate(inst) ==
    IF IsNone(inst.f.bitrate)
    THEN <<Msg("media file bitrate cannot be None for progressive media",
               "bitrate", <<>>)>>
    ELSE IF inst.f.bitrate.i < 0
    THEN <<Msg("media file bitrate must be > 0 but was %s", "bitrate",
               <<inst.f.bitrate.i>>)>>
    ELSE <<>>

\* a check of the pair that compares the other way round
MediaFile_validate_min_max_bitrate_swapped(inst) ==
    LET e1 == IF IsNone(inst.f.min_bitrate)
              THEN <<Msg("media file min_bitrate cannot be None for streaming media",
                         "min_bitrate", <<>>)>>
              ELSE <<>>
        e2 == IF IsNone(inst.f.max_bitrate)
              THEN <<Msg("media file min_bitrate cannot be None for streaming media",
                         "min_bitrate", <<>>)>>
              ELSE <<>>
        errors == e1 \o e2
    IN  IF errors = <<>> /\ inst.f.min_bitrate.i < inst.f.max_bitrate.i
        THEN <<Msg("media file min_bitrate={min_bitrate} is greater than max_bitrate={max_bitrate}",
                   "min_bitrate", <<inst.f.min_bitrate.i, inst.f.max_bitrate.i>>)>>
        ELSE errors

MediaFile_validate_min_max_bitrate(inst) ==
    LET e1 == IF IsNone(inst.f.min_bitrate)
              THEN <<Msg("media file min_bitrate cannot be None for streaming media",
                         "min_bitrate", <<>>)>>
              ELSE <<>>
        e2 == IF IsNone(inst.f.max_bitrate)
              THEN <<Msg("media file min_bitrate cannot be None for streaming media",
                         "min_bitrate", <<>>)>>
              ELSE <<>>
        errors == e1 \o e2
    IN  IF errors = <<>> /\ inst.f.min_bitrate.i > inst.f.max_bitrate.i
        THEN <<Msg("media file min_bitrate={min_bitrate} is greater than max_bitrate={max_bitrate}",
                   "min_bitrate", <<inst.f.min_bitrate.i, inst.f.max_bitrate.i>>)>>
        ELSE errors

Vast_validate_version(inst) ==
    IF inst.f.version # Str("2.0")
    THEN <<Msg("version must be 2.0 for vast 2 instance and was '{version}'",
               "version", <<>>)>>
    ELSE <<>>

\* the validators that are functions of the instance
FnValidator(name) == [kind |-> name]

RunValidator(v, inst) ==
    CASE v.kind = "greater_then" -> greater_then(v, inst)
      [] v.kind = "_validate_bitrate" -> MediaFile_validate_bitrate(inst)
      [] v.kind = "_validate_min_max_bitrate" -> MediaFile_validate_min_max_bitrate(inst)
      [] v.kind = "_validate_version" -> Vast_validate_version(inst)

\* validators.validate(instance, validators): every validator is run, and
\* every message is collected; any message raises
validate(inst, vs) ==
    Only({ IF violations # <<>> THEN Raise(ValidationError(inst.cls, violations))
           ELSE Ok(NoneV) :
           violations \in { SelectSeq([i \in DOMAIN vs |-> RunValidator(vs[i], inst)],
                                      LAMBDA r : r # <<>>) } })

\* the body of a make after check_and_convert gave cc: the validators vs
\* are run on the instance, and the instance is returned when none objects
Validated(cc, vs) ==
    IF Failed(cc) THEN cc
    ELSE Only({ IF Failed(v) THEN v ELSE Ok(cc.ret) : v \in {validate(cc.ret, vs)} })

-----------------------------------------------------------------------------
(* The entity classes of vast/models/vast_v2.py: the rule tables each      *)
(* class declares, and its make.  The argument a of a make is the          *)
(* args_dict the make builds from its parameters.                          *)

\* the rule tables the decorator with_checker_converter reads from a class
Rules(name, required, converters, classes, some_ofs) ==
    [name |-> name, required |-> required, converters |-> converters,
     pairs |-> ConverterPairs(converters), classes |-> classes,
     some_ofs |-> some_ofs]

FLASH == Member("MimeType", "FLASH")
JS == Member("MimeType", "JS")
PROGRESSIVE == Member("Delivery", "PROGRESSIVE")
STREAMING == Member("Delivery", "STREAMING")

(* TrackingEvent *)
TrackingEvent_REQUIRED == <<"tracking_event_uri", "tracking_event_type">>
TrackingEvent_CONVERTERS ==
    << Converter("unicode", <<"tracking_event_uri">>),
       Converter("TrackingEventType", <<"tracking_event_type">>) >>
TrackingEvent_rules ==
    Rules("TrackingEvent", TrackingEvent_REQUIRED, TrackingEvent_CONVERTERS, <<>>, <<>>)
TrackingEvent_make(a) == check_and_convert(TrackingEvent_rules, a)

(* MediaFile *)
MediaFile_REQUIRED_without_height == <<"asset", "delivery", "type", "width">>
MediaFile_REQUIRED == <<"asset", "delivery", "type", "width", "height">>
\* the converters without the one of the enumeration ApiFramework
MediaFile_CONVERTERS_without_api_framework ==
    << Converter("unicode", <<"asset", "codec", "id">>),
       Converter("int", <<"width", "height", "bitrate", "min_bitrate", "max_bitrate">>),
       Converter("bool", <<"scalable", "maintain_aspect_ratio">>),
       Converter("MimeType", <<"type">>),
       Converter("Delivery", <<"delivery">>) >>

MediaFile_CONVERTERS ==
    << Converter("unicode", <<"asset", "codec", "id">>),
       Converter("int", <<"width", "height", "bitrate", "min_bitrate", "max_bitrate">>),
       Converter("bool", <<"scalable", "maintain_aspect_ratio">>),
       Converter("MimeType", <<"type">>),
       Converter("ApiFramework", <<"api_framework">>),
       Converter("Delivery", <<"delivery">>) >>
\* the validators without the one of width
MediaFile_VALIDATORS_height_only ==
    << make_greater_then_validator("height", 0, TRUE) >>
\* the two size validators declared the other way round
MediaFile_VALIDATORS_width_first ==
    << make_greater_then_validator("width", 0, TRUE),
       make_greater_then_validator("height", 0, TRUE) >>

MediaFile_VALIDATORS ==
    << make_greater_then_validator("height", 0, TRUE),
       make_greater_then_validator("width", 0, TRUE) >>
MediaFile_rules ==
    Rules("MediaFile", MediaFile_REQUIRED, MediaFile_CONVERTERS, <<>>, <<>>)

\* a make that returns the instance whatever the validators say
MediaFile_make_unvalidated(a) == check_and_convert(MediaFile_rules, a)

\* a make that applies the bitrate rule to every MIME type
MediaFile_make_no_exemption(a) ==
    Only({ IF Failed(cc) THEN cc
           ELSE IF cc.ret.f.delivery = PROGRESSIVE
           THEN Validated(cc, MediaFile_VALIDATORS
                              \o <<FnValidator("_validate_bitrate")>>)
           ELSE Validated(cc, MediaFile_VALIDATORS
                              \o <<FnValidator("_validate_min_max_bitrate")>>) :
           cc \in {check_and_convert(MediaFile_rules, a)} })

\* a factory that runs the size validators on whatever was converted, also
\* when the structural steps have already reported a violation
MediaFile_make_validating_regardless(a) ==
    Only({ IF Failed(cc)
           THEN Raise(ValidationError("MediaFile",
                    cc.exc.violations
                    \o SelectSeq([i \in DOMAIN MediaFile_VALIDATORS |->
                                     IF ConvertAll(MediaFile_rules, a)[MediaFile_VALIDATORS[i].attr].t = "int"
                                     THEN greater_then(MediaFile_VALIDATORS[i],
                                                       Entity("MediaFile", ConvertAll(MediaFile_rules, a)))
                                     ELSE <<>>],
                                 LAMBDA r : r # <<>>)))
           ELSE IF cc.ret.f.type \in {FLASH, JS}
           THEN Validated(cc, MediaFile_VALIDATORS)
           ELSE IF cc.ret.f.delivery = PROGRESSIVE
           THEN Validated(cc, MediaFile_VALIDATORS
                              \o <<FnValidator("_validate_bitrate")>>)
           ELSE Validated(cc, MediaFile_VALIDATORS
                              \o <<FnValidator("_validate_min_max_bitrate")>>) :
           cc \in {check_and_convert(MediaFile_rules, a)} })

\* a factory that runs both bitrate rules on every file that is not exempt
MediaFile_make_both_rules(a) ==
    Only({ IF Failed(cc) THEN cc
           ELSE IF cc.ret.f.type \in {FLASH, JS}
           THEN Validated(cc, MediaFile_VALIDATORS)
           ELSE Validated(cc, MediaFile_VALIDATORS
                              \o <<FnValidator("_validate_bitrate"),
                                   FnValidator("_validate_min_max_bitrate")>>) :
           cc \in {check_and_convert(MediaFile_rules, a)} })

MediaFile_make(a) ==
    Only({ IF Failed(cc) THEN cc
           ELSE IF cc.ret.f.type \in {FLASH, JS}
           THEN Validated(cc, MediaFile_VALIDATORS)
           ELSE IF cc.ret.f.delivery = PROGRESSIVE
           THEN Validated(cc, MediaFile_VALIDATORS
                              \o <<FnValidator("_validate_bitrate")>>)
           ELSE Validated(cc, MediaFile_VALIDATORS
                              \o <<FnValidator("_validate_min_max_bitrate")>>) :
           cc \in {check_and_convert(MediaFile_rules, a)} })

(* VideoClicks *)
VideoClicks_CONVERTERS ==
    << Converter("unicode", <<"click_through", "click_tracking", "custom_click">>) >>
VideoClicks_rules == Rules("VideoClicks", <<>>, VideoClicks_CONVERTERS, <<>>, <<>>)
VideoClicks_make(a) == check_and_convert(VideoClicks_rules, a)

(* AdParameters *)
AdParameters_REQUIRED == <<"data">>
AdParameters_CONVERTERS ==
    << Converter("unicode", <<"data">>), Converter("bool", <<"xml_encoded">>) >>
AdParameters_rules ==
    Rules("AdParameters", AdParameters_REQUIRED, AdParameters_CONVERTERS, <<>>, <<>>)
AdParameters_make(a) == check_and_convert(AdParameters_rules, a)

(* Linear *)
Linear_REQUIRED == <<"duration", "media_files">>
Linear_CONVERTERS == << Converter("int", <<"duration">>) >>
Linear_CLASSES ==
    << <<"media_files", "MediaFile", TRUE>>,
       <<"tracking_events", "TrackingEvent", TRUE>>,
       <<"video_clicks", "VideoClicks", FALSE>>,
       <<"ad_parameters", "AdParameters", FALSE>> >>
\* a duration validator that lets 0 through, as the one of Creative.sequence does
Linear_VALIDATORS_inclusive_of_zero == << make_greater_then_validator("duration", -1, FALSE) >>
Linear_VALIDATORS == << make_greater_then_validator("duration", 0, FALSE) >>
Linear_rules ==
    Rules("Linear", Linear_REQUIRED, Linear_CONVERTERS, Linear_CLASSES, <<>>)
Linear_make(a) ==
    Only({ Validated(cc, Linear_VALIDATORS) :
           cc \in {check_and_convert(Linear_rules, a)} })

(* NonLinear *)
NonLinear_REQUIRED == <<"non_linear_ads">>
NonLinear_CLASSES ==
    << <<"non_linear_ads", "NonLinearAd", TRUE>>,
       <<"tracking_events", "TrackingEvent", TRUE>> >>
NonLinear_rules == Rules("NonLinear", NonLinear_REQUIRED, <<>>, NonLinear_CLASSES, <<>>)
NonLinear_make(a) == check_and_convert(NonLinear_rules, a)

(* Companion *)
Companion_REQUIRED == <<"companion_ads">>
Companion_CLASSES == << <<"companion_ads", "CompanionAd", TRUE>> >>
Companion_rules == Rules("Companion", Companion_REQUIRED, <<>>, Companion_CLASSES, <<>>)
Companion_make(a) == check_and_convert(Companion_rules, a)

(* Creative *)
Creative_SOME_OFS_none == <<>>
Creative_SOME_OFS == << SomeOf(<<"linear", "non_linear">>, SomeOf_default_up_to) >>
Creative_CONVERTERS ==
    << Converter("unicode", <<"id", "ad_id">>),
       Converter("ApiFramework", <<"api_framework">>),
       Converter("int", <<"sequence">>) >>
Creative_CLASSES ==
    << <<"linear", "Linear", FALSE>>, <<"non_linear", "NonLinear", FALSE>> >>
\* a sequence validator with the strict bound of Linear.duration
Creative_VALIDATORS_exclusive_of_zero == << make_greater_then_validator("sequence", 0, TRUE) >>
Creative_VALIDATORS == << make_greater_then_validator("sequence", -1, TRUE) >>
Creative_rules ==
    Rules("Creative", <<>>, Creative_CONVERTERS, Creative_CLASSES, Creative_SOME_OFS)
\* the parameters of Creative.make, every one with the default None
Creative_parameters ==
    {"linear", "non_linear", "companion", "id", "sequence", "ad_id", "api_framework"}
\* Creative.make(**kw): a keyword that is no parameter is a TypeError
Creative_make(kw) ==
    IF ~(DOMAIN kw \subseteq Creative_parameters)
    THEN Raise(Fault("TypeError", "make() got an unexpected keyword argument"))
    ELSE Only({ Validated(cc, Creative_VALIDATORS) :
                cc \in { check_and_convert(
                             Creative_rules,
                             [n \in Creative_parameters |->
                                 IF n \in DOMAIN kw THEN kw[n] ELSE NoneV]) } })

(* Inline *)
\* an Inline that does not ask for its creatives
Inline_REQUIRED_without_creatives == <<"ad_system", "ad_title", "impression">>
Inline_REQUIRED == <<"ad_system", "ad_title", "impression", "creatives">>
Inline_CONVERTERS == << Converter("unicode", <<"ad_system", "ad_title", "impression">>) >>
Inline_CLASSES == << <<"creatives", "Creative", TRUE>> >>
Inline_rules == Rules("Inline", Inline_REQUIRED, Inline_CONVERTERS, Inline_CLASSES, <<>>)
Inline_make(a) == check_and_convert(Inline_rules, a)

(* Wrapper *)
Wrapper_REQUIRED == <<"ad_system", "vast_ad_tag_uri">>
Wrapper_CONVERTERS ==
    << Converter("unicode", <<"ad_system", "ad_title", "impression", "error">>) >>
Wrapper_CLASSES == << <<"creatives", "Creative", TRUE>> >>
Wrapper_rules ==
    Rules("Wrapper", Wrapper_REQUIRED, Wrapper_CONVERTERS, Wrapper_CLASSES, <<>>)
Wrapper_make(a) == check_and_convert(Wrapper_rules, a)

(* Ad *)
Ad_REQUIRED == <<"id">>
Ad_SOME_OFS_none == <<>>
Ad_SOME_OFS == << SomeOf(<<"wrapper", "inline">>, SomeOf_default_up_to) >>
Ad_CONVERTERS == << Converter("unicode", <<"id">>) >>
Ad_rules == Rules("Ad", Ad_REQUIRED, Ad_CONVERTERS, <<>>, Ad_SOME_OFS)
Ad_make(a) == check_and_convert(Ad_rules, a)
Ad_make_wrapper(id, wrapper) ==
    Ad_make([id |-> id, wrapper |-> wrapper, inline |-> NoneV])
Ad_make_inline(id, inline) ==
    Ad_make([id |-> id, wrapper |-> NoneV, inline |-> inline])

(* Vast *)
Vast_REQUIRED == <<"version", "ad">>
Vast_CLASSES == << <<"ad", "Ad", FALSE>> >>
Vast_rules == Rules("Vast", Vast_REQUIRED, <<>>, Vast_CLASSES, <<>>)
Vast_make(a) ==
    Only({ Validated(cc, <<FnValidator("_validate_version")>>) :
           cc \in {check_and_convert(Vast_rules, a)} })

(* StaticResource *)
StaticResource_REQUIRED == <<"resource", "mime_type">>
StaticResource_CONVERTERS == << Converter("unicode", <<"resource", "mime_type">>) >>
StaticResource_rules ==
    Rules("StaticResource", StaticResource_REQUIRED, StaticResource_CONVERTERS, <<>>, <<>>)
StaticResource_make(a) == check_and_convert(StaticResource_rules, a)

(* UriWithId *)
UriWithId_REQUIRED == <<"resource">>
UriWithId_CONVERTERS == << Converter("unicode", <<"resource", "id">>) >>
UriWithId_rules ==
    Rules("UriWithId", UriWithId_REQUIRED, UriWithId_CONVERTERS, <<>>, <<>>)
UriWithId_make(a) == check_and_convert(UriWithId_rules, a)

(* NonLinearAd *)
NonLinearAd_REQUIRED == <<"width", "height">>
NonLinearAd_CONVERTERS ==
    << Converter("unicode", <<"iframe_resource", "html_resource", "id">>),
       Converter("int", <<"width", "height", "expanded_width", "expanded_height",
                          "min_suggested_duration">>),
       Converter("bool", <<"scalable", "maintain_aspect_ratio">>),
       Converter("ApiFramework", <<"api_framework">>) >>
\* the entries are written (class, name, repeated) in this class
NonLinearAd_CLASSES ==
    << <<"StaticResource", "static_resource", FALSE>>,
       <<"AdParameters", "ad_parameters", FALSE>>,
       <<"ApiFramework", "api_framework", FALSE>>,
       <<"UriWithId", "non_linear_click_through", FALSE>> >>
\* the resource group with the bound that SomeOf has by default
NonLinearAd_SOME_OFS_up_to_one ==
    << SomeOf(<<"iframe_resource", "html_resource", "static_resource">>, 1) >>

NonLinearAd_SOME_OFS ==
    << SomeOf(<<"iframe_resource", "html_resource", "static_resource">>, 3) >>
NonLinearAd_rules ==
    Rules("NonLinearAd", NonLinearAd_REQUIRED, NonLinearAd_CONVERTERS,
          NonLinearAd_CLASSES, NonLinearAd_SOME_OFS)
NonLinearAd_make(a) == check_and_convert(NonLinearAd_rules, a)

(* CompanionAd *)
CompanionAd_REQUIRED == <<"width", "height">>
CompanionAd_CONVERTERS ==
    << Converter("unicode", <<"iframe_resource", "html_resource", "id", "alt_text",
                              "companion_click_through">>),
       Converter("int", <<"width", "height", "expanded_width", "expanded_height">>),
       Converter("ApiFramework", <<"api_framework">>) >>
\* the entries are written (class, name, repeated) in this class
CompanionAd_CLASSES ==
    << <<"StaticResource", "static_resource", FALSE>>,
       <<"AdParameters", "ad_parameters", FALSE>>,
       <<"ApiFramework", "api_framework", FALSE>>,
       <<"TrackingEvent", "tracking_events", TRUE>> >>
\* declared under the name SOME_OF
CompanionAd_SOME_OF ==
    << SomeOf(<<"iframe_resource", "html_resource", "static_resource">>, 3) >>
CompanionAd_rules ==
    Rules("CompanionAd", CompanionAd_REQUIRED, CompanionAd_CONVERTERS,
          CompanionAd_CLASSES, CompanionAd_SOME_OF)
CompanionAd_make(a) == check_and_convert(CompanionAd_rules, a)

\* an assignment that goes through
setattr_unfrozen(inst, name, value) ==
    [inst |-> Entity(inst.cls, [inst.f EXCEPT ![name] = value]), exc |-> NoExc]

\* inst.name = value on an instance of a class declared @attr.s(frozen=True):
\* FrozenInstanceError, and the instance as it was
setattr(inst, name, value) ==
    [inst |-> inst, exc |-> Fault("FrozenInstanceError", "can't set attribute")]

\* the factory of a class, called with the attributes f
Make(cls, f) ==
    CASE cls = "TrackingEvent" -> TrackingEvent_make(f)
      [] cls = "MediaFile" -> MediaFile_make(f)
      [] cls = "VideoClicks" -> VideoClicks_make(f)
      [] cls = "AdParameters" -> AdParameters_make(f)
      [] cls = "Linear" -> Linear_make(f)
      [] cls = "StaticResource" -> StaticResource_make(f)
      [] cls = "UriWithId" -> UriWithId_make(f)
      [] cls = "NonLinearAd" -> NonLinearAd_make(f)
      [] cls = "NonLinear" -> NonLinear_make(f)
      [] cls = "CompanionAd" -> CompanionAd_make(f)
      [] cls = "Companion" -> Companion_make(f)
      [] cls = "Creative" -> Creative_make(f)
      [] cls = "Inline" -> Inline_make(f)
      [] cls = "Wrapper" -> Wrapper_make(f)
      [] cls = "Ad" -> Ad_make(f)
      [] cls = "Vast" -> Vast_make(f)

-----------------------------------------------------------------------------
(* Calls whose arguments are calls: Python evaluates the arguments in      *)
(* order, and the first exception ends the whole expression.               *)

AnyFailed(os) == \E i \in DOMAIN os : Failed(os[i])
FirstFailed(os) ==
    os[CHOOSE i \in DOMAIN os : Failed(os[i]) /\ \A j \in 1..(i - 1) : ~Failed(os[j])]

\* a list built back to front
ListOf_reversed(outcomes) ==
    Only({ IF AnyFailed(os) THEN FirstFailed(os)
           ELSE Ok(ListV([i \in DOMAIN os |-> os[Len(os) + 1 - i].ret])) :
           os \in {outcomes} })

\* [F(x) for x in items], outcomes the outcomes of the calls F(x) in order:
\* the first that raises ends the comprehension
ListOf(outcomes) ==
    Only({ IF AnyFailed(os) THEN FirstFailed(os)
           ELSE Ok(ListV([i \in DOMAIN os |-> os[i].ret])) :
           os \in {outcomes} })

\* Creative.make(linear=Linear.make(duration, media_files=[MediaFile.make(..), ..]))
\* as the tests write it
NestedLinear(duration, media_files) ==
    IF Failed(media_files) THEN media_files
    ELSE Linear_make([duration |-> duration, media_files |-> media_files.ret,
                      video_clicks |-> NoneV, ad_parameters |-> NoneV,
                      tracking_events |-> NoneV])
NestedCreative(duration, mfs) ==
    Only({ Only({ IF Failed(linear) THEN linear
                  ELSE Creative_make([linear |-> linear.ret]) :
                  linear \in {NestedLinear(duration, media_files)} }) :
           media_files \in {ListOf([i \in DOMAIN mfs |-> MediaFile_make(mfs[i])])} })

-----------------------------------------------------------------------------
(* The tree xmltodict.parse gives: an element is a dict of its attributes  *)
(* ("@name"), its text ("#text") and its children, a text-only element is  *)
(* its text, and the children the parsers index are lists.                 *)

Dict(d) == [t |-> "dict", d |-> d]
EmptyDict == Dict([k \in {} |-> NoneV])
\* x.get(k)
Get(x, k) == IF k \in DOMAIN x.d THEN x.d[k] ELSE NoneV
\* not x
Falsy(x) ==
    \/ IsNone(x)
    \/ x.t = "str" /\ x.s = ""
    \/ x.t = "list" /\ x.items = <<>>
    \/ x.t = "dict" /\ DOMAIN x.d = {}
\* the keys of a dict, as iterating over it gives them
Keys(x) ==
    LET ks == DOMAIN x.d
    IN  CHOOSE s \in [1..Cardinality(ks) -> {Str(k) : k \in ks}] :
            \A k \in ks : \E i \in DOMAIN s : s[i] = Str(k)

(* vast/parsers/shared.py *)

ParseError(message) == [t |-> "ParseError", message |-> message]
\* parse_duration: the seconds of an HH:MM:SS text, None for None
KnownDurations == {<<"00:00:15", 15>>, <<"00:00:00", 0>>, <<"00:00:01", 1>>}
parse_duration(x) ==
    IF IsNone(x) THEN Ok(NoneV)
    ELSE IF x.t = "str" /\ \E d \in KnownDurations : d[1] = x.s
    THEN Ok(IntV((CHOOSE d \in KnownDurations : d[1] = x.s)[2]))
    ELSE Raise(Fault("ValueError", "duration"))
\* @accept_none: None is answered with None and the parser is not called;
\* called is the parser's call on x
accept_none(x, called) == IF IsNone(x) THEN Ok(NoneV) ELSE called
\* @accept_falsy: a falsy argument is answered with None
accept_falsy(x, called) == IF Falsy(x) THEN Ok(NoneV) ELSE called
\* @unicode_to_dict: a text-only element is passed on as {"#text": text}
unicode_to_dict(x) == IF ~IsNone(x) /\ x.t = "str" THEN Dict("#text" :> x) ELSE x

\* Cls.make(n1=e1, n2=e2, ..): the arguments are evaluated from left to
\* right, the first that raises ends the call; kws is <<<<n1, o1>>, ..>> with
\* o the outcome of evaluating e, defaults the parameters left to None
Keywords(k, defaults) ==
    [n \in {k[i][1] : i \in DOMAIN k} \cup defaults |->
        IF \E i \in DOMAIN k : k[i][1] = n
        THEN k[CHOOSE i \in DOMAIN k : k[i][1] = n][2].ret
        ELSE NoneV]
CallMake(cls, kws, defaults) ==
    Only({ IF \E i \in DOMAIN k : Failed(k[i][2])
           THEN FirstFailed([i \in DOMAIN k |-> k[i][2]])
           ELSE Make(cls, Keywords(k, defaults)) :
           k \in {kws} })

(* vast/parsers/vast_v2.py *)

_parse_tracking_event(xml_dict) ==
    TrackingEvent_make([tracking_event_uri |-> Get(xml_dict, "#text"),
                        tracking_event_type |-> Get(xml_dict, "@event")])
_parse_tracking_events_body(tracking_events) ==
    LET trackings == Get(tracking_events.items[1], "Tracking").items
    IN  ListOf([i \in DOMAIN trackings |-> _parse_tracking_event(trackings[i])])
_parse_tracking_events(tracking_events) ==
    accept_falsy(tracking_events, _parse_tracking_events_body(tracking_events))

_parse_media_file(xml_dict) ==
    MediaFile_make([asset |-> Get(xml_dict, "#text"),
                    delivery |-> Get(xml_dict, "@delivery"),
                    type |-> Get(xml_dict, "@type"),
                    width |-> Get(xml_dict, "@width"),
                    height |-> Get(xml_dict, "@height"),
                    bitrate |-> Get(xml_dict, "@bitrate"),
                    min_bitrate |-> Get(xml_dict, "@minBitrate"),
                    max_bitrate |-> Get(xml_dict, "@maxBitrate"),
                    scalable |-> Get(xml_dict, "@scalable"),
                    maintain_aspect_ratio |-> Get(xml_dict, "@maintainAspectRatio"),
                    api_framework |-> Get(xml_dict, "@apiFramework"),
                    codec |-> NoneV, id |-> NoneV])
_parse_media_files_body(media_files) ==
    LET elements == Get(media_files.items[1], "MediaFile").items
    IN  ListOf([i \in DOMAIN elements |-> _parse_media_file(elements[i])])
_parse_media_files(media_files) ==
    accept_falsy(media_files, _parse_media_files_body(media_files))

_parse_ad_parameters_body(xml_dict) ==
    AdParameters_make([data |-> Get(xml_dict, "#text"),
                       xml_encoded |-> Get(xml_dict, "@xmlEncoded")])
_parse_ad_parameters_or_none(xml_dict) ==
    accept_none(xml_dict, _parse_ad_parameters_body(xml_dict))
_parse_ad_parameters(xml_dict) == _parse_ad_parameters_or_none(unicode_to_dict(xml_dict))

_parse_video_clicks_body(xml_dict) ==
    VideoClicks_make([click_through |-> Get(xml_dict, "ClickThrough"),
                      click_tracking |-> Get(xml_dict, "ClickTracking"),
                      custom_click |-> Get(xml_dict, "CustomClick")])
_parse_video_clicks(xml_dict) == accept_none(xml_dict, _parse_video_clicks_body(xml_dict))

_parse_static_resource_body(xml_dict) ==
    StaticResource_make([resource |-> Get(xml_dict, "#text"),
                         mime_type |-> Get(xml_dict, "@creativeType")])
_parse_static_resource(xml_dict) ==
    accept_none(xml_dict, _parse_static_resource_body(xml_dict))

_parse_uri_with_id_body(xml_dict) ==
    UriWithId_make([resource |-> Get(xml_dict, "#text"), id |-> Get(xml_dict, "@id")])
_parse_uri_with_id_or_none(xml_dict) ==
    accept_none(xml_dict, _parse_uri_with_id_body(xml_dict))
_parse_uri_with_id(xml_dict) == _parse_uri_with_id_or_none(unicode_to_dict(xml_dict))

_parse_non_linear_ad(xml_dict) ==
    CallMake("NonLinearAd",
             << <<"width", Ok(Get(xml_dict, "@width"))>>,
                <<"height", Ok(Get(xml_dict, "@height"))>>,
                <<"expanded_width", Ok(Get(xml_dict, "@expandedWidth"))>>,
                <<"expanded_height", Ok(Get(xml_dict, "@expandedHeight"))>>,
                <<"scalable", Ok(Get(xml_dict, "@scalable"))>>,
                <<"maintain_aspect_ratio", Ok(Get(xml_dict, "@maintainAspectRatio"))>>,
                <<"min_suggested_duration",
                  parse_duration(Get(xml_dict, "@minSuggestedDuration"))>>,
                <<"api_framework", Ok(Get(xml_dict, "@apiFramework"))>>,
                <<"id", Ok(Get(xml_dict, "@id"))>>,
                <<"static_resource",
                  _parse_static_resource(Get(xml_dict, "StaticResource"))>>,
                <<"iframe_resource", Ok(Get(xml_dict, "IFrameResource"))>>,
                <<"html_resource", Ok(Get(xml_dict, "HTMLResource"))>>,
                <<"non_linear_click_through",
                  _parse_uri_with_id(Get(xml_dict, "NonLinearClickThrough"))>>,
                <<"ad_parameters", _parse_ad_parameters(Get(xml_dict, "AdParameters"))>> >>,
             {})
\* no decorator: iterating over None is a TypeError
_parse_non_linear_ads(non_linear_ads) ==
    IF IsNone(non_linear_ads)
    THEN Raise(Fault("TypeError", "'NoneType' object is not iterable"))
    ELSE ListOf([i \in DOMAIN non_linear_ads.items |->
                    _parse_non_linear_ad(non_linear_ads.items[i])])
_parse_non_linear_creative_body(xml_dict) ==
    CallMake("NonLinear",
             << <<"non_linear_ads",
                  _parse_non_linear_ads(Get(xml_dict, "NonLinear"))>>,
                <<"tracking_events",
                  _parse_tracking_events(Get(xml_dict, "TrackingEvents"))>> >>,
             {})
_parse_non_linear_creative(xml_dict) ==
    accept_none(xml_dict, _parse_non_linear_creative_body(xml_dict))

\* called with what iterating over the first Companion gives: a dict gives
\* its keys, and a text has no get
_parse_companion_ads(xml_dict) ==
    IF xml_dict.t # "dict"
    THEN Raise(Fault("AttributeError", "object has no attribute 'get'"))
    ELSE CallMake("CompanionAd",
             << <<"width", Ok(Get(xml_dict, "@width"))>>,
                <<"height", Ok(Get(xml_dict, "@height"))>>,
                <<"expanded_width", Ok(Get(xml_dict, "@expandedWidth"))>>,
                <<"expanded_height", Ok(Get(xml_dict, "@expandedHeight"))>>,
                <<"api_framework", Ok(Get(xml_dict, "@apiFramework"))>>,
                <<"id", Ok(Get(xml_dict, "@id"))>>,
                <<"static_resource",
                  _parse_static_resource(Get(xml_dict, "StaticResource"))>>,
                <<"iframe_resource", Ok(Get(xml_dict, "IFrameResource"))>>,
                <<"html_resource", Ok(Get(xml_dict, "HTMLResource"))>>,
                <<"companion_click_through",
                  Ok(Get(xml_dict, "CompanionClickThrough"))>>,
                <<"ad_parameters", _parse_ad_parameters(Get(xml_dict, "AdParameters"))>>,
                <<"alt_text", Ok(Get(xml_dict, "AltText"))>> >>, {"tracking_events"})
\* xml_dict.get("Companion")[0] is the first Companion element
_parse_companion_ads_creative_body(xml_dict) ==
    IF IsNone(Get(xml_dict, "Companion"))
    THEN Raise(Fault("TypeError", "'NoneType' object has no attribute '__getitem__'"))
    ELSE CallMake("Companion",
             << <<"companion_ads",
                       LET first == Keys(Get(xml_dict, "Companion").items[1])
                       IN  ListOf([i \in DOMAIN first |-> _parse_companion_ads(first[i])])>> >>,
             {})
_parse_companion_ads_creative(xml_dict) ==
    accept_none(xml_dict, _parse_companion_ads_creative_body(xml_dict))

_parse_linear_creative_body(xml_dict) ==
    CallMake("Linear",
             << <<"duration", parse_duration(Get(xml_dict, "Duration"))>>,
                <<"media_files", _parse_media_files(Get(xml_dict, "MediaFiles"))>>,
                <<"video_clicks", _parse_video_clicks(Get(xml_dict, "VideoClicks"))>>,
                <<"ad_parameters", _parse_ad_parameters(Get(xml_dict, "AdParameters"))>>,
                <<"tracking_events",
                  _parse_tracking_events(Get(xml_dict, "TrackingEvents"))>> >>,
             {})
_parse_linear_creative(xml_dict) ==
    accept_none(xml_dict, _parse_linear_creative_body(xml_dict))

\* the third keyword is companion_ads, the parameter of Creative.make is
\* companion
_parse_creative(xml_dict) ==
    CallMake("Creative",
             << <<"linear", _parse_linear_creative(Get(xml_dict, "Linear"))>>,
                <<"non_linear", _parse_non_linear_creative(Get(xml_dict, "NonLinearAds"))>>,
                <<"companion_ads",
                  _parse_companion_ads_creative(Get(xml_dict, "CompanionAds"))>>,
                <<"id", Ok(Get(xml_dict, "@id"))>>,
                <<"sequence", Ok(Get(xml_dict, "@sequence"))>>,
                <<"ad_id", Ok(Get(xml_dict, "@adId"))>>,
                <<"api_framework", Ok(Get(xml_dict, "@apiFramework"))>> >>,
             {})
_parse_creatives_body(creatives) ==
    LET elements == Get(creatives.items[1], "Creative").items
    IN  ListOf([i \in DOMAIN elements |-> _parse_creative(elements[i])])
_parse_creatives(creatives) == accept_falsy(creatives, _parse_creatives_body(creatives))

_parse_inline_body(xml_dict) ==
    CallMake("Inline",
             << <<"ad_system", Ok(Get(xml_dict, "AdSystem"))>>,
                <<"ad_title", Ok(Get(xml_dict, "AdTitle"))>>,
                <<"impression", Ok(Get(xml_dict, "Impression"))>>,
                <<"creatives", _parse_creatives(Get(xml_dict, "Creatives"))>> >>,
             {})
_parse_inline(xml_dict) == accept_none(xml_dict, _parse_inline_body(xml_dict))

_parse_wrapper_body(xml_dict) ==
    CallMake("Wrapper",
             << <<"ad_system", Ok(Get(xml_dict, "AdSystem"))>>,
                <<"vast_ad_tag_uri", Ok(Get(xml_dict, "VASTAdTagURI"))>>,
                <<"ad_title", Ok(Get(xml_dict, "AdTitle"))>>,
                <<"impression", Ok(Get(xml_dict, "Impression"))>>,
                <<"error", Ok(Get(xml_dict, "Error"))>>,
                <<"creatives", _parse_creatives(Get(xml_dict, "Creatives"))>> >>,
             {})
_parse_wrapper(xml_dict) == accept_none(xml_dict, _parse_wrapper_body(xml_dict))

\* inline is evaluated before wrapper
_parse_ad_body(xml_dict) ==
    CallMake("Ad",
             << <<"id", Ok(Get(xml_dict, "@id"))>>,
                <<"inline", _parse_inline(Get(xml_dict, "InLine"))>>,
                <<"wrapper", _parse_wrapper(Get(xml_dict, "Wrapper"))>> >>,
             {})
_parse_ad(xml_dict) == accept_none(xml_dict, _parse_ad_body(xml_dict))

_parse_vast(xml_dict) ==
    CallMake("Vast",
             << <<"version", Ok(Get(xml_dict, "@version"))>>,
                <<"ad", _parse_ad(Get(xml_dict, "Ad"))>> >>,
             {})
parse_xml(xml_dict) == _parse_vast(Get(xml_dict, "VAST"))

(* vast/parsers/xml_parser.py *)

\* the versions that have a parser
_PARSERS == {"2.0"}
\* a from_xml_string that looks for no parser of the version
from_xml_string_any_version(root) ==
    IF "VAST" \notin DOMAIN root.d
    THEN Raise(ParseError("root must have VAST element"))
    ELSE IF Get(root, "VAST").t # "dict"
    THEN Raise(ParseError("vast must have children elements but was '%s'"))
    ELSE IF Falsy(Get(Get(root, "VAST"), "@version"))
    THEN Raise(ParseError("missing version attribute in vast element '%s'"))
    ELSE parse_xml(root)

\* from_xml_string, from the tree xmltodict.parse gave
from_xml_string(root) ==
    IF "VAST" \notin DOMAIN root.d
    THEN Raise(ParseError("root must have VAST element"))
    ELSE IF Get(root, "VAST").t # "dict"
    THEN Raise(ParseError("vast must have children elements but was '%s'"))
    ELSE IF Falsy(Get(Get(root, "VAST"), "@version"))
    THEN Raise(ParseError("missing version attribute in vast element '%s'"))
    ELSE IF Get(Get(root, "VAST"), "@version").s \notin _PARSERS
    THEN Raise(ParseError("Cannot parse vast version %s"))
    ELSE parse_xml(root)

-----------------------------------------------------------------------------
(* The raw inputs of the calls.                                            *)

MediaFileArgs(asset, delivery, type, width, height, bitrate, min_bitrate, max_bitrate, api_framework) ==
    [asset |-> asset, delivery |-> delivery, type |-> type, width |-> width,
     height |-> height, codec |-> NoneV, id |-> NoneV, bitrate |-> bitrate,
     min_bitrate |-> min_bitrate, max_bitrate |-> max_bitrate,
     scalable |-> NoneV, maintain_aspect_ratio |-> NoneV,
     api_framework |-> api_framework]

Url == Str("https://www.mag.u")

\* the media files the trees of the model are built from
ProgressiveFile(width, height) ==
    MediaFileArgs(Url, Str("progressive"), Str("video/mp4"), width, height,
                  Str("300"), NoneV, NoneV, NoneV)
StreamingFile(width, height) ==
    MediaFileArgs(Url, Str("streaming"), Str("video/3gpp"), width, height,
                  NoneV, Str("51"), Str("900"), NoneV)
TreeMediaFiles ==
    { ProgressiveFile(Str("176"), Str("144")), StreamingFile(IntV(176), IntV(144)),
      ProgressiveFile(Str("0"), Str("144")), ProgressiveFile(Str("-1"), Str("0")),
      ProgressiveFile(Str("176"), Str("0")) }

SeqsUpTo(S, n) == UNION {[1..k -> S] : k \in 1..n}

\* built entities, for the factories that take entities
AMediaFile == MediaFile_make(ProgressiveFile(Str("176"), Str("144"))).ret
BMediaFile == MediaFile_make(StreamingFile(Str("176"), Str("144"))).ret
ATrackingEvent ==
    TrackingEvent_make([tracking_event_uri |-> Url,
                        tracking_event_type |-> Str("close")]).ret
ALinear ==
    Linear_make([duration |-> IntV(15), media_files |-> ListV(<<AMediaFile>>),
                 video_clicks |-> NoneV, ad_parameters |-> NoneV,
                 tracking_events |-> NoneV]).ret
NoResource ==
    [expanded_width |-> NoneV, expanded_height |-> NoneV, api_framework |-> NoneV,
     id |-> NoneV, static_resource |-> NoneV, iframe_resource |-> NoneV,
     html_resource |-> NoneV, ad_parameters |-> NoneV]
ANonLinearAd ==
    NonLinearAd_make([width |-> IntV(300), height |-> IntV(176), scalable |-> NoneV,
                      maintain_aspect_ratio |-> NoneV,
                      min_suggested_duration |-> NoneV,
                      non_linear_click_through |-> NoneV] @@ NoResource).ret
ANonLinear ==
    NonLinear_make([non_linear_ads |-> ListV(<<ANonLinearAd>>),
                    tracking_events |-> NoneV]).ret
ACompanionAd ==
    CompanionAd_make([width |-> IntV(300), height |-> IntV(176),
                      companion_click_through |-> NoneV, alt_text |-> NoneV,
                      tracking_events |-> NoneV] @@ NoResource).ret
ACompanion == Companion_make([companion_ads |-> ListV(<<ACompanionAd>>)]).ret
ACreative == Creative_make([linear |-> ALinear]).ret
AnInline ==
    Inline_make([ad_system |-> Str("MagU"), ad_title |-> Str("title"),
                 impression |-> Url, creatives |-> ListV(<<ACreative>>)]).ret
AWrapper ==
    Wrapper_make([ad_system |-> Str("MagU"), vast_ad_tag_uri |-> Url,
                  ad_title |-> NoneV, impression |-> NoneV, error |-> NoneV,
                  creatives |-> NoneV]).ret
AnInlineAd == Ad_make_inline(Str("509080ATOU"), AnInline).ret
AWrapperAd == Ad_make_wrapper(Str("70470"), AWrapper).ret

-----------------------------------------------------------------------------
(* The primitive validators of vast/validators.py.  A validator is called  *)
(* as validate(value, attr_name, msg=None); it returns None or raises.     *)
(* Each maker returns a closure, kept here as a record of what it closed   *)
(* over; apply_validator is the call of such a closure.                    *)

\* the longest argument list of make_compound_validator that is drawn
MaxCompound == 2

\* the classes a value is an instance of: bool is a subclass of int
Mro(cls) == IF cls = "bool" THEN {"bool", "int", "object"} ELSE {cls, "object"}
isinstance(value, _type) == _type \in Mro(value.t)

IsNumber(v) == v.t \in {"int", "bool"}
PyNumber(v) == IF v.t = "bool" THEN (IF v.b THEN 1 ELSE 0) ELSE v.i

\* a >= b for a number a.  Numbers compare by value.  For any other b
\* Python 2 orders by type (None below the numbers, every other type above
\* them) and Python 3 raises TypeError.
PyGe(python, a, b) ==
    IF IsNumber(b) THEN Ok(BoolV(PyNumber(a) >= PyNumber(b)))
    ELSE IF python = 3 THEN Raise(Fault("TypeError", <<"'>=' not supported", a.t, b.t>>))
    ELSE Ok(BoolV(b.t = "none"))

\* msg or msg_format.format(...)
MsgOr(msg, formatted) == IF Falsy(msg) THEN formatted ELSE msg

make_type_validator(_type) == [kind |-> "type", type |-> _type]
make_greater_than_validator(must_be_greater_than_me) ==
    [kind |-> "greater_than", must_be_greater_than_me |-> must_be_greater_than_me]
make_compound_validator(validators) == [kind |-> "compound", validators |-> validators]

type_validate(v, value, attr_name, msg) ==
    IF ~isinstance(value, v.type)
    THEN Raise(Fault("TypeError",
                     <<MsgOr(msg, Msg("must be (got that is a)", attr_name, <<v.type, value, value.t>>)),
                       attr_name, v.type, value>>))
    ELSE Ok(NoneV)

\* a bound that lets the bound itself through
greater_than_validate_not_strict(python, v, value, attr_name, msg) ==
    Only({ IF Failed(ge) THEN ge
           ELSE IF ge.ret.b /\ v.must_be_greater_than_me # value
           THEN Raise(Fault("ValueError",
                            <<MsgOr(msg, Msg("must be greater than but got", attr_name,
                                             <<v.must_be_greater_than_me, value>>)),
                              attr_name, value>>))
           ELSE Ok(NoneV) :
           ge \in {PyGe(python, v.must_be_greater_than_me, value)} })

greater_than_validate(python, v, value, attr_name, msg) ==
    Only({ IF Failed(ge) THEN ge
           ELSE IF ge.ret.b
           THEN Raise(Fault("ValueError",
                            <<MsgOr(msg, Msg("must be greater than but got", attr_name,
                                             <<v.must_be_greater_than_me, value>>)),
                              attr_name, value>>))
           ELSE Ok(NoneV) :
           ge \in {PyGe(python, v.must_be_greater_than_me, value)} })

\* what a validator call did: the exception it raised (NoExc when it
\* returned) and the primitive validators it applied, in order
Applied(exc, primitives) == [exc |-> exc, applied |-> primitives]

RECURSIVE apply_validator(_, _, _, _, _)
RECURSIVE compound_validate_to_the_end(_, _, _, _, _)
RECURSIVE compound_validate(_, _, _, _, _)

\* a loop that applies every validator and raises what the first failure raised
compound_validate_to_the_end(python, validators, value, attr_name, msg) ==
    IF validators = <<>> THEN Applied(NoExc, <<>>)
    ELSE Only({ Only({ Applied(IF first.exc # NoExc THEN first.exc ELSE rest.exc,
                               first.applied \o rest.applied) :
                       rest \in {compound_validate_to_the_end(python, Tail(validators),
                                                              value, attr_name, msg)} }) :
                first \in {apply_validator(python, Head(validators), value, attr_name, msg)} })

\* for validator_fn in validators: validator_fn(value, attr_name, msg=msg)
compound_validate(python, validators, value, attr_name, msg) ==
    IF validators = <<>> THEN Applied(NoExc, <<>>)
    ELSE Only({ IF first.exc # NoExc THEN first
                ELSE Only({ Applied(rest.exc, first.applied \o rest.applied) :
                            rest \in {compound_validate(python, Tail(validators),
                                                        value, attr_name, msg)} }) :
                first \in {apply_validator(python, Head(validators), value, attr_name, msg)} })

apply_validator(python, v, value, attr_name, msg) ==
    CASE v.kind = "type" -> Applied(type_validate(v, value, attr_name, msg).exc, <<v>>)
      [] v.kind = "greater_than" ->
            Applied(greater_than_validate(python, v, value, attr_name, msg).exc, <<v>>)
      [] v.kind = "compound" -> compound_validate(python, v.validators, value, attr_name, msg)

-----------------------------------------------------------------------------
(* The state machine: a caller that makes one call after the other.        *)

\* the documents, as trees
XmlMediaFile(delivery, width, height, rates) ==
    Dict(("#text" :> Url) @@ ("@delivery" :> Str(delivery))
         @@ ("@type" :> Str("video/mp4")) @@ ("@width" :> Str(width))
         @@ ("@height" :> Str(height)) @@ rates)
XmlMediaFiles ==
    { XmlMediaFile("progressive", "176", "144", "@bitrate" :> Str("300")),
      XmlMediaFile("streaming", "176", "144",
                   ("@minBitrate" :> Str("51")) @@ ("@maxBitrate" :> Str("900"))),
      XmlMediaFile("progressive", "0", "144", "@bitrate" :> Str("300")),
      XmlMediaFile("progressive", "176", "0", "@bitrate" :> Str("300")) }
XmlTracking ==
    "TrackingEvents" :>
        ListV(<<Dict("Tracking" :>
                     ListV(<<Dict(("#text" :> Url) @@ ("@event" :> Str("creativeView")))>>))>>)
XmlLinear(duration, media_files, more) ==
    Dict(("Duration" :> Str(duration))
         @@ ("MediaFiles" :> ListV(<<Dict("MediaFile" :> ListV(media_files))>>))
         @@ more)
XmlCreative(children) == Dict(("@sequence" :> Str("1")) @@ children)
XmlCompanionAds ==
    Dict("Companion" :>
         ListV(<<Dict(("@width" :> Str("300")) @@ ("@height" :> Str("60")))>>))
\* two Companion elements, each with its TrackingEvents
XmlCompanion(width, event) ==
    Dict(("@width" :> Str(width)) @@ ("@height" :> Str("60"))
         @@ ("TrackingEvents" :>
             ListV(<<Dict("Tracking" :>
                          ListV(<<Dict(("#text" :> Url) @@ ("@event" :> Str(event)))>>))>>)))
XmlCompanionAdsWithTracking ==
    Dict("Companion" :> ListV(<<XmlCompanion("300", "creativeView"), XmlCompanion("100", "close")>>))
\* elements whose child group is missing
XmlCompanionAdsWithoutCompanion == Dict("@required" :> Str("all"))
XmlNonLinearAdsWithoutNonLinear == Dict(XmlTracking)
XmlLinearWithoutMediaFiles == Dict("Duration" :> Str("00:00:15"))
XmlNonLinearAds ==
    Dict("NonLinear" :>
         ListV(<<Dict(("@width" :> Str("300")) @@ ("@height" :> Str("60"))
                      @@ ("StaticResource" :>
                          Dict(("#text" :> Url) @@ ("@creativeType" :> Str("image/png")))))>>))
XmlInline(creatives) ==
    Dict(("AdSystem" :> Str("MagU")) @@ ("AdTitle" :> Str("Flu Vaccine"))
         @@ ("Impression" :> Url)
         @@ ("Creatives" :> ListV(<<Dict("Creative" :> ListV(creatives))>>)))
XmlInlineWithoutCreatives == Dict(("AdSystem" :> Str("MagU")) @@ ("Impression" :> Url))
XmlWrapper == Dict(("AdSystem" :> Str("MagU")) @@ ("VASTAdTagURI" :> Url))
XmlWrapperWithoutUri == Dict("AdSystem" :> Str("MagU"))
XmlAd(children) == Dict(("@id" :> Str("70470")) @@ children)
XmlVast(version, children) == Dict("VAST" :> Dict(("@version" :> Str(version)) @@ children))
XmlLinearAds ==
    { XmlAd("InLine" :> XmlInline(<<XmlCreative("Linear" :> XmlLinear(d, mfs, more))>>)) :
        d \in {"00:00:15", "00:00:00"},
        mfs \in SeqsUpTo(XmlMediaFiles, MaxMediaFiles),
        more \in {EmptyDict.d, XmlTracking} }
XmlOtherAds ==
    LET linear == "Linear" :> XmlLinear("00:00:15", <<CHOOSE m \in XmlMediaFiles :
                                            Get(m, "@delivery") = Str("streaming")>>,
                                        EmptyDict.d)
    IN  { XmlAd("Wrapper" :> XmlWrapper),
          XmlAd("Wrapper" :> XmlWrapperWithoutUri),
          XmlAd("InLine" :> XmlInlineWithoutCreatives),
          XmlAd(("InLine" :> XmlInlineWithoutCreatives)
                @@ ("Wrapper" :> XmlWrapperWithoutUri)),
          XmlAd("InLine" :> XmlInline(<<XmlCreative(linear), XmlCreative(linear)>>)),
          XmlAd("InLine" :> XmlInline(<<XmlCreative(linear
                                                    @@ ("CompanionAds" :> XmlCompanionAds))>>)),
          XmlAd("InLine" :> XmlInline(<<XmlCreative("CompanionAds" :> XmlCompanionAds)>>)),
          XmlAd("InLine" :> XmlInline(<<XmlCreative("NonLinearAds" :> XmlNonLinearAds)>>)),
          XmlAd("InLine" :> XmlInline(<<XmlCreative("CompanionAds" :> XmlCompanionAdsWithTracking)>>)),
          XmlAd("InLine" :> XmlInline(<<XmlCreative("CompanionAds" :> XmlCompanionAdsWithoutCompanion)>>)),
          XmlAd("InLine" :> XmlInline(<<XmlCreative("NonLinearAds" :> XmlNonLinearAdsWithoutNonLinear)>>)),
          XmlAd("InLine" :> XmlInline(<<XmlCreative("Linear" :> XmlLinearWithoutMediaFiles)>>)) }
Documents ==
    { XmlVast("2.0", "Ad" :> ad) : ad \in XmlLinearAds \cup XmlOtherAds }
    \cup { XmlVast(version, "Ad" :> ad) :
             version \in {"3.0", "2", ""},
             ad \in {XmlAd("Wrapper" :> XmlWrapper), XmlAd("Wrapper" :> XmlWrapperWithoutUri),
                     XmlAd("InLine" :> XmlInlineWithoutCreatives)} }
    \cup { XmlVast("2.0", EmptyDict.d), XmlVast("3.0", EmptyDict.d),
           XmlVast("", EmptyDict.d), Dict("VAST" :> Dict("Ad" :> XmlAd("Wrapper" :> XmlWrapper))),
           Dict("VAST" :> Str("text")), Dict("VAST" :> NoneV), Dict("HTML" :> NoneV) }

NotAssigned == [t |-> "notassigned"]

\* concurrent callers of MediaFile.make, each with its own frame
NumThreads == 2
Threads == 1..NumThreads
Idle == [pc |-> "idle", args |-> NoneV, cc |-> NoneV, vs |-> <<>>, outcome |-> NoneV]
NotCalled == [ret |-> NoneV, exc |-> [t |-> "notcalled"]]

Init ==
    /\ op = "idle"
    /\ args = NoneV
    /\ instance = NoneV
    /\ returned = NoneV
    /\ raised = NoExc
    /\ again = NotCalled
    /\ assigned = NotAssigned
    /\ applied = <<>>
    /\ threads = [t \in Threads |-> Idle]
    /\ cls_VALIDATORS = MediaFile_VALIDATORS

\* what the caller and the model see of the call name(a): inst is the
\* candidate the make built, o the outcome of the call
Observe(name, a, inst, o) ==
    /\ op' = name
    /\ args' = a
    /\ instance' = inst
    /\ returned' = o.ret
    /\ raised' = o.exc
    /\ again' = NotCalled
    /\ assigned' = NotAssigned
    /\ applied' = <<>>
    /\ UNCHANGED <<threads, cls_VALIDATORS>>

Call_TrackingEvent_make ==
    /\ op = "idle"
    /\ \E uri \in {NoneV, Url},
          type \in {NoneV, Str("creativeView"), Str("close"), Str("bogus"),
                    Member("TrackingEventType", "CREATIVE_VIEW")} :
          LET a == [tracking_event_uri |-> uri, tracking_event_type |-> type]
          IN  Observe("TrackingEvent.make", a,
                      check_and_convert(TrackingEvent_rules, a).ret,
                      TrackingEvent_make(a))

Call_MediaFile_make ==
    /\ op = "idle"
    /\ \E asset \in {NoneV, Url},
          delivery \in {NoneV, Str("progressive"), Str("streaming"), Str("bogus")},
          type \in {NoneV, Str("video/mp4"), Str("application/javascript"),
                    Str("application/x-shockwave-flash"), Str("video/x-flv")},
          width \in {NoneV, Str("0"), Str("176"), Str("wide")},
          height \in {NoneV, Str("-1"), IntV(144)},
          bitrate \in {NoneV, IntV(-1), IntV(0), Str("300")},
          min_bitrate \in {NoneV, Str("51"), Str("900")},
          max_bitrate \in {NoneV, Str("51"), Str("900")},
          api_framework \in {NoneV, Str("bogus")} :
          LET a == MediaFileArgs(asset, delivery, type, width, height, bitrate,
                                 min_bitrate, max_bitrate, api_framework)
          IN  Observe("MediaFile.make", a,
                      check_and_convert(MediaFile_rules, a).ret, MediaFile_make(a))

Call_Linear_make ==
    /\ op = "idle"
    /\ \E duration \in {NoneV, Str("15"), IntV(1), IntV(0), IntV(-1)},
          media_files \in {NoneV, ListV(<<>>), ListV(<<AMediaFile>>),
                           ListV(<<AMediaFile, BMediaFile>>), ListV(<<ATrackingEvent>>)},
          tracking_events \in {NoneV, ListV(<<>>), ListV(<<ATrackingEvent>>)} :
          LET a == [duration |-> duration, media_files |-> media_files,
                    video_clicks |-> NoneV, ad_parameters |-> NoneV,
                    tracking_events |-> tracking_events]
          IN  Observe("Linear.make", a, check_and_convert(Linear_rules, a).ret,
                      Linear_make(a))

Call_Creative_make ==
    /\ op = "idle"
    /\ \E linear \in {NoneV, ALinear}, non_linear \in {NoneV, ANonLinear},
          companion \in {NoneV, ACompanion},
          sequence \in {NoneV, Str("-1"), IntV(0), Str("1")},
          api_framework \in {NoneV, Str("VPAID"), Member("ApiFramework", "VPAID")} :
          LET a == [linear |-> linear, non_linear |-> non_linear,
                    companion |-> companion, id |-> NoneV, sequence |-> sequence,
                    ad_id |-> NoneV, api_framework |-> api_framework]
          IN  Observe("Creative.make", a, check_and_convert(Creative_rules, a).ret,
                      Creative_make(a))

Call_Ad_make ==
    /\ op = "idle"
    /\ \E id \in {NoneV, Str("70470"), IntV(1)}, wrapper \in {NoneV, AWrapper},
          inline \in {NoneV, AnInline} :
          LET a == [id |-> id, wrapper |-> wrapper, inline |-> inline]
          IN  Observe("Ad.make", a, check_and_convert(Ad_rules, a).ret, Ad_make(a))

Call_Vast_make ==
    /\ op = "idle"
    /\ \E version \in {NoneV, Str("2.0"), Str("3.0")},
          ad \in {NoneV, AnInlineAd, AWrapperAd, AnInline} :
          LET a == [version |-> version, ad |-> ad]
          IN  Observe("Vast.make", a, check_and_convert(Vast_rules, a).ret,
                      Vast_make(a))

\* the nested factory expression, with 1 to MaxMediaFiles media files
Call_nested_Creative ==
    /\ op = "idle"
    /\ \E duration \in {IntV(15), IntV(0)},
          mfs \in SeqsUpTo(TreeMediaFiles, MaxMediaFiles) :
          Observe("nested Creative.make", [duration |-> duration, media_files |-> mfs],
                  NoneV, NestedCreative(duration, mfs))

\* from_xml_string(xml_input), xml_input the text of one of the documents
Call_from_xml_string ==
    /\ op = "idle"
    /\ \E root \in Documents :
          Observe("from_xml_string", [xml |-> root], NoneV, from_xml_string(root))

\* the validators and values a caller of vast/validators.py is given
PrimitiveValidators ==
    { make_type_validator(_type) : _type \in {"int", "bool", "str"} }
    \cup { make_greater_than_validator(IntV(gt)) : gt \in {-1, 0, 1} }
ValidatorValues ==
    { IntV(-1), IntV(0), IntV(1), IntV(15), BoolV(TRUE), BoolV(FALSE), Str("1"), NoneV }
Validators ==
    PrimitiveValidators
    \cup { make_compound_validator(vs) : vs \in {<<>>} \cup SeqsUpTo(PrimitiveValidators, MaxCompound) }
    \cup { make_compound_validator(<<make_compound_validator(<<make_type_validator("int"),
                                                                make_greater_than_validator(IntV(0))>>),
                                     make_greater_than_validator(IntV(1))>>),
           make_compound_validator(<<make_type_validator("int"),
                                     make_compound_validator(<<make_greater_than_validator(IntV(0)),
                                                                make_type_validator("bool")>>)>>) }

Call_validator ==
    /\ op = "idle"
    /\ \E validator \in Validators, value \in ValidatorValues,
          msg \in {NoneV, Str(""), Str("custom")}, python \in {2, 3} :
          LET o == apply_validator(python, validator, value, "attr", msg)
          IN  /\ op' = "validator"
              /\ args' = [validator |-> validator, value |-> value, attr_name |-> "attr",
                          msg |-> msg, python |-> python]
              /\ raised' = o.exc
              /\ applied' = o.applied
    /\ instance' = NoneV
    /\ returned' = NoneV
    /\ again' = NotCalled
    /\ assigned' = NotAssigned
    /\ UNCHANGED <<threads, cls_VALIDATORS>>

AStaticResource ==
    StaticResource_make([resource |-> Url, mime_type |-> Str("image/png")]).ret

\* the overlay and companion factories, with every subset of the three
\* alternative resources
Call_NonLinearAd_make ==
    /\ op = "idle"
    /\ \E width \in {NoneV, Str("300")},
          static_resource \in {NoneV, AStaticResource},
          iframe_resource \in {NoneV, Url},
          html_resource \in {NoneV, Str("<b>ad</b>")} :
          LET a == [width |-> width, height |-> IntV(176), expanded_width |-> NoneV,
                    expanded_height |-> NoneV, scalable |-> NoneV,
                    maintain_aspect_ratio |-> NoneV, min_suggested_duration |-> NoneV,
                    api_framework |-> NoneV, id |-> NoneV,
                    static_resource |-> static_resource,
                    iframe_resource |-> iframe_resource, html_resource |-> html_resource,
                    non_linear_click_through |-> NoneV, ad_parameters |-> NoneV]
          IN  Observe("NonLinearAd.make", a, check_and_convert(NonLinearAd_rules, a).ret,
                      NonLinearAd_make(a))

Call_CompanionAd_make ==
    /\ op = "idle"
    /\ \E width \in {NoneV, Str("300")},
          static_resource \in {NoneV, AStaticResource},
          iframe_resource \in {NoneV, Url},
          html_resource \in {NoneV, Str("<b>ad</b>")},
          tracking_events \in {NoneV, ListV(<<>>), ListV(<<ATrackingEvent>>)} :
          LET a == [width |-> width, height |-> IntV(176), expanded_width |-> NoneV,
                    expanded_height |-> NoneV, api_framework |-> NoneV, id |-> NoneV,
                    static_resource |-> static_resource,
                    iframe_resource |-> iframe_resource, html_resource |-> html_resource,
                    companion_click_through |-> NoneV, ad_parameters |-> NoneV,
                    alt_text |-> NoneV, tracking_events |-> tracking_events]
          IN  Observe("CompanionAd.make", a, check_and_convert(CompanionAd_rules, a).ret,
                      CompanionAd_make(a))

\* a second overlay, companion and creative, to tell the children of a list apart
BNonLinearAd ==
    NonLinearAd_make([width |-> IntV(100), height |-> IntV(60), scalable |-> NoneV,
                      maintain_aspect_ratio |-> NoneV,
                      min_suggested_duration |-> NoneV,
                      non_linear_click_through |-> NoneV] @@ NoResource).ret
BCompanionAd ==
    CompanionAd_make([width |-> IntV(100), height |-> IntV(60),
                      companion_click_through |-> NoneV, alt_text |-> NoneV,
                      tracking_events |-> NoneV] @@ NoResource).ret
BCreative == Creative_make([linear |-> ALinear, sequence |-> IntV(2)]).ret

\* the lists of children a container factory is given
ChildLists(a, b) == {NoneV, ListV(<<>>), ListV(<<a>>), ListV(<<a, b>>), ListV(<<b, a>>)}

Call_NonLinear_make ==
    /\ op = "idle"
    /\ \E non_linear_ads \in ChildLists(ANonLinearAd, BNonLinearAd) \cup {ListV(<<ACompanionAd>>)},
          tracking_events \in {NoneV, ListV(<<>>), ListV(<<ATrackingEvent>>)} :
          LET a == [non_linear_ads |-> non_linear_ads, tracking_events |-> tracking_events]
          IN  Observe("NonLinear.make", a, check_and_convert(NonLinear_rules, a).ret,
                      NonLinear_make(a))

Call_Companion_make ==
    /\ op = "idle"
    /\ \E companion_ads \in ChildLists(ACompanionAd, BCompanionAd) \cup {ListV(<<ANonLinearAd>>)} :
          LET a == [companion_ads |-> companion_ads]
          IN  Observe("Companion.make", a, check_and_convert(Companion_rules, a).ret,
                      Companion_make(a))

Call_Inline_make ==
    /\ op = "idle"
    /\ \E ad_title \in {NoneV, Str("title")},
          creatives \in ChildLists(ACreative, BCreative) \cup {ListV(<<ALinear>>)} :
          LET a == [ad_system |-> Str("MagU"), ad_title |-> ad_title,
                    impression |-> Url, creatives |-> creatives]
          IN  Observe("Inline.make", a, check_and_convert(Inline_rules, a).ret,
                      Inline_make(a))

Call_Wrapper_make ==
    /\ op = "idle"
    /\ \E vast_ad_tag_uri \in {NoneV, Url},
          creatives \in ChildLists(ACreative, BCreative) \cup {ListV(<<ALinear>>)} :
          LET a == [ad_system |-> Str("MagU"), vast_ad_tag_uri |-> vast_ad_tag_uri,
                    ad_title |-> NoneV, impression |-> NoneV, error |-> NoneV,
                    creatives |-> creatives]
          IN  Observe("Wrapper.make", a, check_and_convert(Wrapper_rules, a).ret,
                      Wrapper_make(a))

\* the parser of one Linear element, on elements with several media files
Call_parse_linear_creative ==
    /\ op = "idle"
    /\ \E media_files \in SeqsUpTo(XmlMediaFiles, MaxMediaFiles),
          more \in {EmptyDict.d, XmlTracking} :
          LET xml_dict == XmlLinear("00:00:15", media_files, more)
          IN  Observe("_parse_linear_creative", [xml |-> xml_dict], NoneV,
                      _parse_linear_creative(xml_dict))

FactoryCalls ==
    {"TrackingEvent.make", "MediaFile.make", "Linear.make", "Creative.make",
     "Ad.make", "Vast.make"}

\* the caller makes the entity it received once more, from its attributes
Remake ==
    /\ op \in FactoryCalls
    /\ returned.t = "entity"
    /\ again = NotCalled
    /\ again' = Make(returned.cls, returned.f)
    /\ UNCHANGED <<op, args, instance, returned, raised, applied, assigned, threads, cls_VALIDATORS>>

\* the caller assigns to an attribute of the entity it received, of an
\* entity that entity holds, or of an entity in a list that entity holds
Assign ==
    /\ op \in FactoryCalls
    /\ returned.t = "entity"
    /\ assigned = NotAssigned
    /\ \/ \E name \in DOMAIN returned.f :
             LET r == setattr(returned, name, NoneV)
             IN  returned' = r.inst /\ assigned' = r.exc
       \/ \E held \in {h \in DOMAIN returned.f : returned.f[h].t = "entity"} :
             \E name \in DOMAIN returned.f[held].f :
                LET r == setattr(returned.f[held], name, NoneV)
                IN  /\ returned' = Entity(returned.cls,
                                          [returned.f EXCEPT ![held] = r.inst])
                    /\ assigned' = r.exc
       \/ \E held \in {h \in DOMAIN returned.f : returned.f[h].t = "list"} :
             \E i \in DOMAIN returned.f[held].items :
                \E name \in DOMAIN returned.f[held].items[i].f :
                   LET r == setattr(returned.f[held].items[i], name, NoneV)
                   IN  /\ returned' =
                             Entity(returned.cls,
                                    [returned.f EXCEPT ![held] =
                                        ListV([returned.f[held].items
                                                  EXCEPT ![i] = r.inst])])
                       /\ assigned' = r.exc
    /\ UNCHANGED <<op, args, instance, raised, applied, again, threads, cls_VALIDATORS>>

\* the caller is done with the outcome
Return ==
    /\ op # "idle"
    /\ op' = "idle"
    /\ args' = NoneV
    /\ instance' = NoneV
    /\ returned' = NoneV
    /\ raised' = NoExc
    /\ again' = NotCalled
    /\ assigned' = NotAssigned
    /\ applied' = <<>>
    /\ UNCHANGED <<threads, cls_VALIDATORS>>

Next ==
    \/ Call_TrackingEvent_make
    \/ Call_MediaFile_make
    \/ Call_Linear_make
    \/ Call_Creative_make
    \/ Call_Ad_make
    \/ Call_Vast_make
    \/ Call_nested_Creative
    \/ Call_from_xml_string
    \/ Call_validator
    \/ Call_NonLinearAd_make
    \/ Call_CompanionAd_make
    \/ Call_NonLinear_make
    \/ Call_Companion_make
    \/ Call_Inline_make
    \/ Call_Wrapper_make
    \/ Call_parse_linear_creative
    \/ Remake
    \/ Assign
    \/ Return

Spec == Init /\ [][Next]_vars

(***************************************************************************)
(* Concurrent constructions.  Several callers run MediaFile.make at once;  *)
(* each step of the factory is one action of the caller's own frame, and   *)
(* the steps of different callers interleave freely.  The only object the  *)
(* callers have in common is the class with its VALIDATORS attribute.      *)
(***************************************************************************)
ThreadInputs ==
    { MediaFileArgs(Url, Str("progressive"), Str("video/mp4"), Str("176"), Str("144"), Str("300"), NoneV, NoneV, NoneV),
      MediaFileArgs(Url, Str("progressive"), Str("video/mp4"), Str("176"), Str("144"), NoneV, NoneV, NoneV, NoneV),
      MediaFileArgs(Url, Str("streaming"), Str("video/3gpp"), Str("176"), Str("144"), NoneV, Str("51"), Str("900"), NoneV),
      MediaFileArgs(Url, Str("streaming"), Str("video/3gpp"), Str("176"), Str("144"), NoneV, Str("900"), Str("51"), NoneV),
      MediaFileArgs(Url, Str("progressive"), Str("application/x-shockwave-flash"), Str("176"), Str("144"), NoneV, NoneV, NoneV, NoneV),
      MediaFileArgs(NoneV, Str("streaming"), Str("video/3gpp"), Str("wide"), Str("144"), NoneV, NoneV, NoneV, NoneV) }

\* the validators make adds to the shared ones for this instance
ExtraValidators(inst) ==
    IF inst.f.type \in {FLASH, JS} THEN <<>>
    ELSE IF inst.f.delivery = PROGRESSIVE THEN <<FnValidator("_validate_bitrate")>>
    ELSE <<FnValidator("_validate_min_max_bitrate")>>

\* a make that appended to the class attribute instead of to a copy of it
VALIDATORS_appended_in_place(validators, extra) == validators \o extra

\* the class attribute after make built its list: make works on a copy
VALIDATORS_after_make(validators, extra) == validators

Thread_call(t) ==
    /\ threads[t].pc = "idle"
    /\ \E a \in ThreadInputs :
          threads' = [threads EXCEPT ![t] = [Idle EXCEPT !.pc = "called", !.args = a]]
    /\ UNCHANGED <<op, args, instance, returned, raised, applied, again, assigned, cls_VALIDATORS>>

Thread_check_and_convert(t) ==
    /\ threads[t].pc = "called"
    /\ LET cc == check_and_convert(MediaFile_rules, threads[t].args)
       IN  threads' = [threads EXCEPT ![t] =
                          IF Failed(cc) THEN [@ EXCEPT !.pc = "done", !.outcome = cc]
                          ELSE [@ EXCEPT !.pc = "converted", !.cc = cc]]
    /\ UNCHANGED <<op, args, instance, returned, raised, applied, again, assigned, cls_VALIDATORS>>

Thread_pick_validators(t) ==
    /\ threads[t].pc = "converted"
    /\ LET extra == ExtraValidators(threads[t].cc.ret)
       IN  /\ threads' = [threads EXCEPT ![t] =
                             [@ EXCEPT !.pc = "picked", !.vs = cls_VALIDATORS \o extra]]
           /\ cls_VALIDATORS' = VALIDATORS_after_make(cls_VALIDATORS, extra)
    /\ UNCHANGED <<op, args, instance, returned, raised, applied, again, assigned>>

Thread_validate(t) ==
    /\ threads[t].pc = "picked"
    /\ threads' = [threads EXCEPT ![t] =
                      [@ EXCEPT !.pc = "done", !.outcome = Validated(threads[t].cc, threads[t].vs)]]
    /\ UNCHANGED <<op, args, instance, returned, raised, applied, again, assigned, cls_VALIDATORS>>

Thread_return(t) ==
    /\ threads[t].pc = "done"
    /\ threads' = [threads EXCEPT ![t] = Idle]
    /\ UNCHANGED <<op, args, instance, returned, raised, applied, again, assigned, cls_VALIDATORS>>

NextConcurrent ==
    \E t \in Threads :
        \/ Thread_call(t)
        \/ Thread_check_and_convert(t)
        \/ Thread_pick_validators(t)
        \/ Thread_validate(t)
        \/ Thread_return(t)

SpecConcurrent == Init /\ [][NextConcurrent]_vars

-----------------------------------------------------------------------------
(* What the properties below read from an outcome.                         *)

Accepted == returned.t = "entity"
Rejected == raised.t = "ValidationError"
Violations == IF Rejected THEN raised.violations ELSE <<>>
\* every message of the error, the joined ones taken apart
Messages == Flatten(Violations)
HasMessage(text, field) ==
    \E i \in DOMAIN Messages : Messages[i].msg = text /\ Messages[i].field = field
MessagesWith(text) == {i \in DOMAIN Messages : Messages[i].msg = text}

BitrateRequired == "media file bitrate cannot be None for progressive media"
MinGreaterThanMax ==
    "media file min_bitrate={min_bitrate} is greater than max_bitrate={max_bitrate}"
TooMany == "more fields present than the group allows"

ClassOf(call) ==
    CASE call = "TrackingEvent.make" -> "TrackingEvent"
      [] call = "MediaFile.make" -> "MediaFile"
      [] call = "Linear.make" -> "Linear"
      [] call = "Creative.make" -> "Creative"
      [] call = "Ad.make" -> "Ad"
      [] call = "Vast.make" -> "Vast"

RulesOf(cls) ==
    CASE cls = "TrackingEvent" -> TrackingEvent_rules
      [] cls = "MediaFile" -> MediaFile_rules
      [] cls = "Linear" -> Linear_rules
      [] cls = "Creative" -> Creative_rules
      [] cls = "Ad" -> Ad_rules
      [] cls = "Vast" -> Vast_rules

\* the semantic validators that apply to entity e
SemanticRules(e) ==
    CASE e.cls = "MediaFile" ->
            MediaFile_VALIDATORS
            \o (IF e.f.type \in {FLASH, JS} THEN <<>>
                ELSE IF e.f.delivery = PROGRESSIVE
                THEN <<FnValidator("_validate_bitrate")>>
                ELSE <<FnValidator("_validate_min_max_bitrate")>>)
      [] e.cls = "Linear" -> Linear_VALIDATORS
      [] e.cls = "Creative" -> Creative_VALIDATORS
      [] e.cls = "Vast" -> <<FnValidator("_validate_version")>>
      [] OTHER -> <<>>

EveryRulePasses(e) ==
    /\ StructuralViolations(RulesOf(e.cls), args, e.f) = <<>>
    /\ \A i \in DOMAIN SemanticRules(e) : RunValidator(SemanticRules(e)[i], e) = <<>>

-----------------------------------------------------------------------------
\* C1: a factory call ends in exactly one outcome: an entity in which every
\* rule of its class passes, or a validation error and no entity; when the
\* converted instance was built and a semantic validator then objects, the
\* caller receives no entity.
C1_ExactlyOneOutcome ==
    op \in FactoryCalls =>
        /\ raised.t \in {"none", "ValidationError"}
        /\ Accepted <=> raised = NoExc
        /\ Rejected => returned = NoneV /\ raised.violations # <<>>
        /\ Accepted => /\ returned = instance
                       /\ returned.cls = ClassOf(op)
                       /\ EveryRulePasses(returned)

\* a media file whose instance was built and whose validators then objected
C1_Witness ==
    /\ op = "MediaFile.make"
    /\ instance.t = "entity"
    /\ Rejected
    /\ returned = NoneV

\* C2: a call that leaves N required fields of MediaFile or of TrackingEvent
\* out is rejected with exactly N missing-required-field violations, one for
\* each field left out.
C2_Required ==
    CASE op = "MediaFile.make" -> {"asset", "delivery", "type", "width", "height"}
      [] op = "TrackingEvent.make" -> {"tracking_event_uri", "tracking_event_type"}
      [] OTHER -> {}
C2_Missing == {n \in C2_Required : IsNone(args[n])}
C2_AggregationCompleteness ==
    C2_Missing # {} =>
        /\ Rejected
        /\ {Messages[i].field : i \in MessagesWith("missing required field")}
           = C2_Missing
        /\ Cardinality(MessagesWith("missing required field"))
           = Cardinality(C2_Missing)

\* every required field of a media file is left out, and five are reported
C2_Witness ==
    /\ op = "MediaFile.make"
    /\ Cardinality(C2_Missing) = 5
    /\ Cardinality(MessagesWith("missing required field")) = 5

\* C3: Ad.make with wrapper and inline both present fails with exactly one
\* exclusion-group violation; with exactly one of them present there is no
\* exclusion violation and the call succeeds when id is present; with
\* neither present there is no exclusion violation.
C3_Present == {n \in {"wrapper", "inline"} : ~IsNone(args[n])}
C3_TaggedChoice ==
    op = "Ad.make" =>
        /\ Cardinality(C3_Present) = 2 =>
              Rejected /\ Cardinality(MessagesWith(TooMany)) = 1
        /\ Cardinality(C3_Present) = 1 =>
              /\ MessagesWith(TooMany) = {}
              /\ ~IsNone(args.id) => Accepted
        /\ Cardinality(C3_Present) = 0 => MessagesWith(TooMany) = {}

\* an ad with a wrapper and an inline, rejected
C3_Witness ==
    /\ op = "Ad.make"
    /\ Cardinality(C3_Present) = 2
    /\ Rejected
    /\ Cardinality(MessagesWith(TooMany)) = 1

\* whether the raw value v of attribute type names Flash or JavaScript
IsFlashOrJs(v) == ~IsNone(v) /\ Convert("MimeType", v).v \in {FLASH, JS}
IsDelivery(v, member) == ~IsNone(v) /\ Convert("Delivery", v).v = member

\* C4 as it was claimed: every progressive media file without a bitrate is
\* rejected with the bitrate-required violation, whatever its other fields
\* and its MIME type are.
C4_Original ==
    (op = "MediaFile.make" /\ IsDelivery(args.delivery, PROGRESSIVE)
     /\ IsNone(args.bitrate))
        => Rejected /\ HasMessage(BitrateRequired, "bitrate")

\* C4: every progressive media file without a bitrate whose MIME type is
\* neither Flash nor JavaScript is rejected, and with the bitrate-required
\* violation when the presence and conversion checks of its fields pass.
C4_ProgressiveNeedsBitrate ==
    (op = "MediaFile.make" /\ IsDelivery(args.delivery, PROGRESSIVE)
     /\ IsNone(args.bitrate) /\ ~IsFlashOrJs(args.type))
        => /\ Rejected
           /\ instance.t = "entity" => HasMessage(BitrateRequired, "bitrate")

\* a progressive video/mp4 file without a bitrate, rejected for the bitrate
C4_Witness ==
    /\ op = "MediaFile.make"
    /\ instance.t = "entity"
    /\ instance.f.delivery = PROGRESSIVE
    /\ instance.f.type = Member("MimeType", "MP4")
    /\ IsNone(args.bitrate)
    /\ HasMessage(BitrateRequired, "bitrate")

\* a streaming media file whose other fields are valid
C5_Streaming ==
    /\ op = "MediaFile.make"
    /\ instance.t = "entity"
    /\ instance.f.delivery = STREAMING
    /\ instance.f.width.i > 0
    /\ instance.f.height.i > 0
C5_BothPresent == ~IsNone(instance.f.min_bitrate) /\ ~IsNone(instance.f.max_bitrate)

\* C5 as it was claimed: a streaming media file is accepted when min_bitrate
\* <= max_bitrate, rejected with the ordered-pair violation when min_bitrate
\* > max_bitrate, and rejected when one of the two is absent.
C5_Original ==
    C5_Streaming =>
        /\ (C5_BothPresent /\ instance.f.min_bitrate.i <= instance.f.max_bitrate.i)
              => Accepted
        /\ (C5_BothPresent /\ instance.f.min_bitrate.i > instance.f.max_bitrate.i)
              => Rejected /\ HasMessage(MinGreaterThanMax, "min_bitrate")
        /\ ~C5_BothPresent => Rejected

\* C5: a streaming media file is accepted when min_bitrate <= max_bitrate;
\* when its MIME type is neither Flash nor JavaScript it is rejected with the
\* ordered-pair violation when min_bitrate > max_bitrate, and rejected when
\* one of the two is absent.
C5_StreamingPair ==
    C5_Streaming =>
        /\ (C5_BothPresent /\ instance.f.min_bitrate.i <= instance.f.max_bitrate.i)
              => Accepted
        /\ instance.f.type \notin {FLASH, JS} =>
              /\ (C5_BothPresent
                  /\ instance.f.min_bitrate.i > instance.f.max_bitrate.i)
                    => Rejected /\ HasMessage(MinGreaterThanMax, "min_bitrate")
              /\ ~C5_BothPresent => Rejected

\* min_bitrate 900 and max_bitrate 51, rejected for the order
C5_Witness ==
    /\ C5_Streaming
    /\ instance.f.min_bitrate = IntV(900)
    /\ instance.f.max_bitrate = IntV(51)
    /\ Rejected
    /\ HasMessage(MinGreaterThanMax, "min_bitrate")

\* the elements of the document of a from_xml_string call
DocAd == Get(Get(args.xml, "VAST"), "Ad")
DocCreatives == Get(Get(Get(DocAd, "InLine"), "Creatives").items[1], "Creative").items
IsInlineDocument ==
    /\ op = "from_xml_string"
    /\ "VAST" \in DOMAIN args.xml.d
    /\ Get(args.xml, "VAST").t = "dict"
    /\ Get(Get(args.xml, "VAST"), "@version") = Str("2.0")
    /\ ~IsNone(DocAd)
    /\ ~IsNone(Get(DocAd, "InLine"))
    /\ IsNone(Get(DocAd, "Wrapper"))
    /\ ~IsNone(Get(Get(DocAd, "InLine"), "Creatives"))
IsLinearOnly(creative) ==
    /\ ~IsNone(Get(creative, "Linear"))
    /\ IsNone(Get(creative, "NonLinearAds"))
    /\ IsNone(Get(creative, "CompanionAds"))

\* the media files of the linear creative of the document, and the errors
\* of those that are invalid
C6_Files ==
    IF IsNone(Get(Get(DocCreatives[1], "Linear"), "MediaFiles")) THEN <<>>
    ELSE Get(Get(Get(DocCreatives[1], "Linear"), "MediaFiles").items[1], "MediaFile").items
C6_Errors ==
    {_parse_media_file(C6_Files[i]).exc : i \in DOMAIN C6_Files} \ {NoExc}

\* C6: when two media files of the linear creative of a document are
\* invalid in different ways, from_xml_string raises one validation error
\* that holds the violations of both.
C6_WholeTreeAggregation ==
    (IsInlineDocument /\ Len(DocCreatives) = 1 /\ IsLinearOnly(DocCreatives[1])
     /\ Cardinality(C6_Errors) >= 2)
        => /\ Rejected
           /\ \A e \in C6_Errors : \A i \in DOMAIN e.violations :
                 \E j \in DOMAIN Violations : Violations[j] = e.violations[i]

\* the media files of the nested call, and which of them have a width <= 0
C7_Files == args.media_files
C7_Int(v) == ToInt(v).v.i
C7_BadWidth == {i \in DOMAIN C7_Files : C7_Int(C7_Files[i].width) <= 0}
C7_Case ==
    /\ op = "nested Creative.make"
    /\ Len(C7_Files) = 3
    /\ Cardinality(C7_BadWidth) = 1
    /\ \A i \in DOMAIN C7_Files \ C7_BadWidth :
          /\ C7_Int(C7_Files[i].width) > 0
          /\ C7_Int(C7_Files[i].height) > 0

\* C7: a creative made of a linear with three media files, exactly one of
\* them with a width <= 0 and its two siblings valid, is not constructed: no
\* entity is returned, and the error is the one of that media file, with a
\* violation on its width.
C7_DeepNesting ==
    C7_Case =>
        /\ returned = NoneV
        /\ Rejected
        /\ raised.cls = "MediaFile"
        /\ \E i \in MessagesWith("must be greater than") :
              /\ Messages[i].field = "width"
              /\ Messages[i].vals
                 = <<0, C7_Int(C7_Files[CHOOSE j \in C7_BadWidth : TRUE].width)>>

\* the third media file is the one with the width 0
C7_Witness ==
    /\ C7_Case
    /\ C7_BadWidth = {3}
    /\ Rejected
    /\ HasMessage("must be greater than", "width")

\* the factories called with the values of the document, each child of a
\* Creative under the name Creative.make has for it
C8_Creative(creative) ==
    CallMake("Creative",
             << <<"linear", _parse_linear_creative(Get(creative, "Linear"))>>,
                <<"id", Ok(Get(creative, "@id"))>>,
                <<"sequence", Ok(Get(creative, "@sequence"))>>,
                <<"ad_id", Ok(Get(creative, "@adId"))>>,
                <<"api_framework", Ok(Get(creative, "@apiFramework"))>> >>,
             {})
C8_Inline ==
    CallMake("Inline",
             << <<"ad_system", Ok(Get(Get(DocAd, "InLine"), "AdSystem"))>>,
                <<"ad_title", Ok(Get(Get(DocAd, "InLine"), "AdTitle"))>>,
                <<"impression", Ok(Get(Get(DocAd, "InLine"), "Impression"))>>,
                <<"creatives",
                  ListOf([i \in DOMAIN DocCreatives |-> C8_Creative(DocCreatives[i])])>> >>,
             {})
C8_Direct ==
    CallMake("Vast",
             << <<"version", Ok(Str("2.0"))>>,
                <<"ad", CallMake("Ad",
             << <<"id", Ok(Get(DocAd, "@id"))>>,
                                              <<"inline", C8_Inline>> >>,
                                 {"wrapper"})>> >>,
             {})

\* C8: for a valid VAST 2.0 document with an inline ad whose creatives each
\* hold a Linear, from_xml_string returns the Vast entity that the factories
\* return when they are called with the values of the document.
C8_ParserFactoryEquivalence ==
    (IsInlineDocument /\ (\A i \in DOMAIN DocCreatives : IsLinearOnly(DocCreatives[i]))
     /\ ~Failed(C8_Direct))
        => raised = NoExc /\ returned = C8_Direct.ret

\* C9: a Creative that Creative.make returns holds exactly one of linear,
\* non_linear and companion.
C9_Present == {n \in {"linear", "non_linear", "companion"} : ~IsNone(returned.f[n])}
C9_ExactlyOneKind ==
    (op = "Creative.make" /\ Accepted) => Cardinality(C9_Present) = 1

\* C10: an entity made once more from its own attributes is made, and equals
\* the first; an entity made from the string of an Enum value equals the one
\* made from the member.
C10_WithMember(cls, attr) ==
    Make(ClassOf(op), [args EXCEPT ![attr] = EnumCall(cls, args[attr]).v])
C10_RoundTrip ==
    /\ again # NotCalled => again = Ok(returned)
    /\ (op = "Creative.make" /\ Accepted /\ args.api_framework = Str("VPAID"))
          => /\ returned.f.api_framework = Member("ApiFramework", "VPAID")
             /\ C10_WithMember("ApiFramework", "api_framework") = Ok(returned)
    /\ (op = "TrackingEvent.make" /\ Accepted
        /\ args.tracking_event_type = Str("creativeView"))
          => /\ returned.f.tracking_event_type
                = Member("TrackingEventType", "CREATIVE_VIEW")
             /\ C10_WithMember("TrackingEventType", "tracking_event_type")
                = Ok(returned)

\* a creative made from "VPAID", and made again from what it holds
C10_Witness ==
    /\ op = "Creative.make"
    /\ args.api_framework = Str("VPAID")
    /\ Accepted
    /\ again = Ok(returned)

\* a Flash or JavaScript media file whose fields are present and converted
C11_FlashOrJs ==
    /\ op = "MediaFile.make"
    /\ instance.t = "entity"
    /\ instance.f.type \in {FLASH, JS}
C11_SizeIsPositive == instance.f.width.i > 0 /\ instance.f.height.i > 0

\* C11: a Flash or JavaScript media file whose fields are present and
\* converted is accepted exactly when its width and height are greater than
\* 0, whatever its delivery mode and whatever its bitrate, min_bitrate and
\* max_bitrate are; an error of it holds violations of width and height only.
C11_FlashAndJsExempt ==
    C11_FlashOrJs =>
        /\ Accepted <=> C11_SizeIsPositive
        /\ \A i \in DOMAIN Messages : Messages[i].field \in {"width", "height"}

\* a streaming Flash file without any bitrate, accepted
C11_Witness ==
    /\ C11_FlashOrJs
    /\ instance.f.type = FLASH
    /\ instance.f.delivery = STREAMING
    /\ IsNone(instance.f.bitrate)
    /\ IsNone(instance.f.min_bitrate)
    /\ IsNone(instance.f.max_bitrate)
    /\ Accepted

\* the message of the first check of from_xml_string that the document
\* fails, "" when it passes all four
C12_Vast == Get(args.xml, "VAST")
C12_Refusal ==
    IF "VAST" \notin DOMAIN args.xml.d
    THEN "root must have VAST element"
    ELSE IF C12_Vast.t # "dict"
    THEN "vast must have children elements but was '%s'"
    ELSE IF IsNone(Get(C12_Vast, "@version")) \/ Get(C12_Vast, "@version") = Str("")
    THEN "missing version attribute in vast element '%s'"
    ELSE IF Get(C12_Vast, "@version") # Str("2.0")
    THEN "Cannot parse vast version %s"
    ELSE ""

\* C12: from_xml_string raises the ParseError of the first of its four
\* checks that a document fails (root is VAST, VAST has content, version is
\* there, version is "2.0"), whatever the document holds below; a document
\* of version "2.0" is answered by the version 2 parser and with no
\* ParseError.
C12_ParseErrors ==
    op = "from_xml_string" =>
        IF C12_Refusal # ""
        THEN raised = ParseError(C12_Refusal) /\ returned = NoneV
        ELSE /\ raised.t # "ParseError"
             /\ [ret |-> returned, exc |-> raised] = parse_xml(args.xml)

\* a document of version "3.0" whose wrapper no factory would accept
C12_Witness ==
    /\ op = "from_xml_string"
    /\ args.xml = XmlVast("3.0", "Ad" :> XmlAd("Wrapper" :> XmlWrapperWithoutUri))
    /\ C12_Refusal = "Cannot parse vast version %s"
    /\ raised.t = "ParseError"

C14_Done(t) == threads[t].pc = "done"

C14_DeterministicAndIndependent ==
    /\ \A t \in Threads :
          C14_Done(t) => threads[t].outcome = MediaFile_make(threads[t].args)
    /\ \A t, u \in Threads :
          (C14_Done(t) /\ C14_Done(u) /\ threads[t].args = threads[u].args)
              => threads[t].outcome = threads[u].outcome

\* two constructions overlapped: one caller was rejected for its progressive
\* file while the other received its streaming file
C14_Witness ==
    \E t, u \in Threads :
        /\ C14_Done(t) /\ Failed(threads[t].outcome)
        /\ threads[t].args.delivery = Str("progressive")
        /\ threads[u].pc = "done" /\ ~Failed(threads[u].outcome)
        /\ threads[u].args.delivery = Str("streaming")

\* C15: the validator built by make_type_validator(T) raises for every value
\* that is not exactly of type T, a value of a subtype of T included (a
\* boolean checked against the integer type)
C15_TypeCall == op = "validator" /\ args.validator.kind = "type"

C15_ExactType ==
    C15_TypeCall => (raised # NoExc <=> args.value.t # args.validator.type)

\* C16: the validator built by make_greater_than_validator(bound) is strict:
\* for every number and every bound it raises ValueError exactly when
\* value <= bound, so the bound itself is refused and bound + 1 is let through
C16_GreaterThanCall ==
    op = "validator" /\ args.validator.kind = "greater_than" /\ IsNumber(args.value)

C16_Bound == args.validator.must_be_greater_than_me.i

C16_Strict ==
    C16_GreaterThanCall =>
        /\ raised # NoExc <=> PyNumber(args.value) <= C16_Bound
        /\ raised # NoExc => raised.t = "ValueError"
        /\ args.value = IntV(C16_Bound) => raised # NoExc
        /\ args.value = IntV(C16_Bound + 1) => raised = NoExc

\* the bound itself was checked and refused
C16_Witness ==
    /\ C16_GreaterThanCall
    /\ args.value = IntV(C16_Bound)
    /\ raised.t = "ValueError"

\* C17: the validator built by make_compound_validator(v1, ..., vn) accepts a
\* value exactly when every vi accepts it; otherwise it applies the vi in the
\* order given, raises what the first failing vi raises, and applies none of
\* the later ones
C17_CompoundCall == op = "validator" /\ args.validator.kind = "compound"

C17_Members == args.validator.validators

\* what the i-th member does when it is called on its own
C17_Alone(i) ==
    apply_validator(args.python, C17_Members[i], args.value, args.attr_name, args.msg)

C17_Failing == {i \in DOMAIN C17_Members : C17_Alone(i).exc # NoExc}

C17_FirstFailing == CHOOSE i \in C17_Failing : \A j \in C17_Failing : i <= j

C17_FirstFailureOnly ==
    C17_CompoundCall =>
        /\ raised = NoExc <=> C17_Failing = {}
        /\ raised = NoExc =>
              applied = Flatten([i \in DOMAIN C17_Members |-> C17_Alone(i).applied])
        /\ raised # NoExc =>
              /\ raised = C17_Alone(C17_FirstFailing).exc
              /\ applied = Flatten([i \in 1..C17_FirstFailing |-> C17_Alone(i).applied])

\* two members would both fail on their own; only the first was applied
C17_Witness ==
    /\ C17_CompoundCall
    /\ Cardinality(C17_Failing) >= 2
    /\ C17_FirstFailing = 1
    /\ Len(applied) = 1
    /\ raised.t = "TypeError"
    /\ C17_Alone(2).exc.t = "ValueError"

\* C18: the semantic validators of an entity run only after its presence
\* check, conversion, nested construction and exclusion check have reported
\* nothing: when one of those steps reports a violation, the error holds the
\* structural violations and nothing else, whatever the semantic validators
\* would have said of the values given
C18_Calls == {"MediaFile.make", "Linear.make", "Creative.make", "Vast.make"}

C18_Structural ==
    StructuralViolations(RulesOf(ClassOf(op)), args, ConvertAll(RulesOf(ClassOf(op)), args))

C18_StructuralTexts ==
    {"missing required field", "conversion failed", "must be of class", TooMany}

C18_SemanticMessages == {i \in DOMAIN Messages : Messages[i].msg \notin C18_StructuralTexts}

C18_StructuralBeforeSemantic ==
    op \in C18_Calls =>
        /\ C18_Structural # <<>> =>
              /\ Rejected
              /\ Violations = C18_Structural
              /\ C18_SemanticMessages = {}
        /\ C18_SemanticMessages # {} =>
              /\ C18_Structural = <<>>
              /\ instance.t = "entity"

\* a media file without its asset and with a height of -1: the error names
\* the missing asset and is silent about the height
C18_Witness ==
    /\ op = "MediaFile.make"
    /\ IsNone(args.asset) /\ args.height = Str("-1") /\ args.width = Str("0")
    /\ Rejected
    /\ HasMessage("missing required field", "asset")
    /\ C18_SemanticMessages = {}

\* C19: the semantic validators of a media file do not cut one another
\* short: for a structurally complete media file the error holds one
\* violation for each validator that objects (height <= 0, width <= 0, the
\* bitrate rule of its delivery), in the declared order height, width,
\* bitrate rule
C19_Complete == op = "MediaFile.make" /\ instance.t = "entity"

C19_NotPositive(name) == ~IsNone(instance.f[name]) /\ instance.f[name].i <= 0

C19_BitrateRule ==
    IF instance.f.type \in {FLASH, JS} THEN <<>>
    ELSE IF instance.f.delivery = PROGRESSIVE
    THEN MediaFile_validate_bitrate(instance)
    ELSE MediaFile_validate_min_max_bitrate(instance)

\* the attribute each expected violation is about, in the declared order
C19_Expected ==
    (IF C19_NotPositive("height") THEN <<"height">> ELSE <<>>)
    \o (IF C19_NotPositive("width") THEN <<"width">> ELSE <<>>)
    \o (IF C19_BitrateRule # <<>> THEN <<C19_BitrateRule[1].field>> ELSE <<>>)

C19_NoShortCircuit ==
    C19_Complete =>
        /\ Rejected <=> C19_Expected # <<>>
        /\ [i \in DOMAIN Violations |-> Violations[i][1].field] = C19_Expected
        /\ C19_BitrateRule # <<>> => Violations[Len(Violations)] = C19_BitrateRule

\* height, width and the bitrate rule all object at once: three violations
C19_Witness ==
    /\ C19_Complete
    /\ Rejected
    /\ Len(Violations) = 3
    /\ [i \in DOMAIN Violations |-> Violations[i][1].field] = <<"height", "width", "bitrate">>

\* C20: for a progressive media file to which the bitrate rule applies the
\* bitrate must be positive: make rejects every bitrate <= 0, the bitrate 0
\* included, and accepts every bitrate >= 1
C20_Progressive ==
    /\ op = "MediaFile.make"
    /\ instance.t = "entity"
    /\ instance.f.delivery = PROGRESSIVE
    /\ instance.f.type \notin {FLASH, JS}
    /\ ~IsNone(instance.f.bitrate)

C20_PositiveBitrate ==
    C20_Progressive =>
        /\ instance.f.bitrate.i <= 0 =>
              Rejected /\ HasMessage("media file bitrate must be > 0 but was %s", "bitrate")
        /\ instance.f.bitrate.i >= 1 =>
              ~HasMessage("media file bitrate must be > 0 but was %s", "bitrate")

\* C21: the two bitrate rules are branches chosen by the converted delivery
\* mode: a progressive media file is never checked for its min_bitrate and
\* max_bitrate, a streaming one is never checked for its bitrate, and every
\* media file that is neither Flash nor JavaScript gets exactly one of the
\* two rules
C21_Ruled ==
    /\ op = "MediaFile.make"
    /\ instance.t = "entity"
    /\ instance.f.type \notin {FLASH, JS}

\* the violations of the error that are not about the size of the file
C21_RuleViolations ==
    SelectSeq(Violations, LAMBDA v : v[1].field \notin {"height", "width"})

C21_AsViolations(result) == IF result = <<>> THEN <<>> ELSE <<result>>

C21_OneRuleByDelivery ==
    C21_Ruled =>
        /\ instance.f.delivery \in {PROGRESSIVE, STREAMING}
        /\ instance.f.delivery = PROGRESSIVE =>
              /\ C21_RuleViolations = C21_AsViolations(MediaFile_validate_bitrate(instance))
              /\ \A i \in DOMAIN Messages : Messages[i].field # "min_bitrate"
        /\ instance.f.delivery = STREAMING =>
              /\ C21_RuleViolations = C21_AsViolations(MediaFile_validate_min_max_bitrate(instance))
              /\ \A i \in DOMAIN Messages : Messages[i].field # "bitrate"

\* progressive with bitrate 300, min 900 and max 51 is accepted
C21_Witness ==
    /\ C21_Ruled
    /\ instance.f.delivery = PROGRESSIVE
    /\ instance.f.bitrate = IntV(300)
    /\ instance.f.min_bitrate = IntV(900)
    /\ instance.f.max_bitrate = IntV(51)
    /\ Accepted

\* C22: a conversion failure does not abort the construction: for a present
\* raw value that cannot be converted (a tracking_event_type, delivery, type
\* or api_framework that is no value of its enumeration, a width that is no
\* number) the error holds a conversion-failed violation for that field, and
\* every other failed conversion and missing required field of the same
\* entity is in the same error
C22_Calls == {"MediaFile.make", "TrackingEvent.make"}

\* the raw values drawn that no converter accepts
C22_Unconvertible == {Str("wide"), Str("bogus"), Str("video/x-flv")}

C22_Converted ==
    IF op = "MediaFile.make" THEN {"width", "delivery", "type", "api_framework"}
    ELSE {"tracking_event_type"}

C22_RequiredFields ==
    IF op = "MediaFile.make" THEN {"asset", "delivery", "type", "width", "height"}
    ELSE {"tracking_event_uri", "tracking_event_type"}

C22_Bad == {n \in C22_Converted : args[n] \in C22_Unconvertible}

C22_Absent == {n \in C22_RequiredFields : IsNone(args[n])}

C22_ConversionDoesNotAbort ==
    op \in C22_Calls =>
        /\ C22_Bad # {} => Rejected
        /\ \A n \in C22_Bad : HasMessage("conversion failed", n)
        /\ \A n \in C22_Absent : HasMessage("missing required field", n)
        /\ Cardinality(MessagesWith("conversion failed")) = Cardinality(C22_Bad)
        /\ Cardinality(MessagesWith("missing required field")) = Cardinality(C22_Absent)

\* four conversions fail and two required fields are missing: six violations
C22_Witness ==
    /\ op = "MediaFile.make"
    /\ C22_Bad = {"width", "delivery", "type", "api_framework"}
    /\ C22_Absent = {"asset", "height"}
    /\ Len(Violations) = 6

\* C23: the resource group {iframe_resource, html_resource, static_resource}
\* of NonLinearAd and of CompanionAd allows 3 of its 3 fields and can never
\* be violated: with none, one, two or all three resources present the
\* construction reports no exclusion-group violation, and the overlay or
\* companion is accepted when its other fields are valid
C23_Calls == {"NonLinearAd.make", "CompanionAd.make"}

C23_Resources ==
    {n \in {"iframe_resource", "html_resource", "static_resource"} : ~IsNone(args[n])}

C23_GroupNeverViolated ==
    op \in C23_Calls =>
        /\ MessagesWith(TooMany) = {}
        /\ ~IsNone(args.width) => Accepted
        /\ Accepted => C23_Resources = {n \in {"iframe_resource", "html_resource", "static_resource"} : ~IsNone(returned.f[n])}

\* an overlay that carries all three resources is accepted
C23_Witness ==
    /\ op = "NonLinearAd.make"
    /\ Cardinality(C23_Resources) = 3
    /\ Accepted

\* C24: repeated children keep their order: for every repeated nested field
\* (Linear.media_files, Linear.tracking_events, NonLinear.non_linear_ads,
\* Companion.companion_ads, Inline.creatives) the i-th child of the
\* constructed entity is the entity built from the i-th element of the
\* input sequence, and there are as many children as elements
C24_RepeatedFields ==
    CASE op = "Linear.make" -> {"media_files", "tracking_events"}
      [] op = "NonLinear.make" -> {"non_linear_ads", "tracking_events"}
      [] op = "Companion.make" -> {"companion_ads"}
      [] op \in {"Inline.make", "Wrapper.make"} -> {"creatives"}
      [] OTHER -> {}

\* the Linear element that was parsed, its MediaFile and Tracking elements
C24_MediaFileElements == Get(Get(args.xml, "MediaFiles").items[1], "MediaFile").items

C24_TrackingElements ==
    IF IsNone(Get(args.xml, "TrackingEvents")) THEN <<>>
    ELSE Get(Get(args.xml, "TrackingEvents").items[1], "Tracking").items

C24_Children(field) ==
    IF IsNone(returned.f[field]) THEN <<>> ELSE returned.f[field].items

C24_OrderKept ==
    /\ (Accepted /\ C24_RepeatedFields # {}) =>
          \A field \in C24_RepeatedFields :
              ~IsNone(args[field]) =>
                  /\ Len(C24_Children(field)) = Len(args[field].items)
                  /\ \A i \in DOMAIN args[field].items :
                        C24_Children(field)[i] = args[field].items[i]
    /\ (Accepted /\ op = "_parse_linear_creative") =>
          /\ Len(C24_Children("media_files")) = Len(C24_MediaFileElements)
          /\ \A i \in DOMAIN C24_MediaFileElements :
                C24_Children("media_files")[i] = _parse_media_file(C24_MediaFileElements[i]).ret
          /\ Len(C24_Children("tracking_events")) = Len(C24_TrackingElements)
          /\ \A i \in DOMAIN C24_TrackingElements :
                C24_Children("tracking_events")[i]
                    = _parse_tracking_event(C24_TrackingElements[i]).ret
    /\ (Accepted /\ op = "nested Creative.make") =>
          /\ Len(returned.f.linear.f.media_files.items) = Len(args.media_files)
          /\ \A i \in DOMAIN args.media_files :
                returned.f.linear.f.media_files.items[i] = MediaFile_make(args.media_files[i]).ret

\* a Linear element with three media files, the second unlike the first
C24_Witness ==
    /\ op = "_parse_linear_creative"
    /\ Accepted
    /\ Len(C24_Children("media_files")) = 3
    /\ C24_Children("media_files")[1] # C24_Children("media_files")[2]
    /\ C24_Children("media_files")[1].f.delivery = PROGRESSIVE

\* C25: an absent or empty sequence for an optional repeated field is no
\* error: Wrapper.make with creatives absent and Linear.make with
\* tracking_events absent or empty succeed with no children; the same
\* absence for a field that is required (Inline.creatives,
\* Linear.media_files, NonLinear.non_linear_ads, Companion.companion_ads)
\* is a missing-required-field violation
C25_NoChildren(v) == IsNone(v) \/ v = ListV(<<>>)

C25_RequiredList ==
    CASE op = "Inline.make" -> "creatives"
      [] op = "Linear.make" -> "media_files"
      [] op = "NonLinear.make" -> "non_linear_ads"
      [] op = "Companion.make" -> "companion_ads"

C26_Linear == op = "Linear.make"

C26_ValidChildren ==
    /\ args.media_files \in {ListV(<<AMediaFile>>), ListV(<<AMediaFile, BMediaFile>>)}
    /\ args.tracking_events \in {NoneV, ListV(<<>>), ListV(<<ATrackingEvent>>)}

C26_Duration == ToInt(args.duration).v.i

C26_StrictDuration ==
    C26_Linear =>
        /\ IsNone(args.duration) =>
              Rejected /\ HasMessage("missing required field", "duration")
        /\ (~IsNone(args.duration) /\ C26_Duration <= 0) =>
              /\ Rejected
              /\ C26_ValidChildren => HasMessage("must be greater than", "duration")
        /\ (~IsNone(args.duration) /\ C26_Duration >= 1 /\ C26_ValidChildren) => Accepted

\* the duration 0 with a valid media file is refused for its duration
C26_Witness ==
    /\ C26_Linear
    /\ args.duration = IntV(0)
    /\ args.media_files = ListV(<<AMediaFile>>)
    /\ Rejected
    /\ HasMessage("must be greater than", "duration")

\* C27: the sequence of a Creative is optional and its bound includes zero:
\* Creative.make accepts an absent sequence and every sequence >= 0, the
\* sequence 0 included, and rejects every sequence <= -1
C27_Creative == op = "Creative.make"

\* the other rule of the class, the group of linear and non_linear, passes
C27_GroupPasses == IsNone(args.linear) \/ IsNone(args.non_linear)

C27_Sequence == ToInt(args.sequence).v.i

C27_InclusiveOfZero ==
    C27_Creative =>
        /\ (IsNone(args.sequence) /\ C27_GroupPasses) => Accepted
        /\ (~IsNone(args.sequence) /\ C27_Sequence >= 0 /\ C27_GroupPasses) => Accepted
        /\ (~IsNone(args.sequence) /\ C27_Sequence <= -1) =>
              /\ Rejected
              /\ C27_GroupPasses => HasMessage("must be greater than", "sequence")
        /\ HasMessage("must be greater than", "sequence") => C27_Sequence <= -1

\* the sequence 0 is accepted
C27_Witness ==
    /\ C27_Creative
    /\ args.sequence = IntV(0)
    /\ Accepted
    /\ returned.f.sequence = IntV(0)

\* C28: parsing a CompanionAds element keeps every companion and its
\* tracking events: for a document whose creative has k Companion elements
\* from_xml_string yields a Companion with k CompanionAd children in
\* document order, and the tracking_events of each hold the TrackingEvents
\* of its Companion element (they are not absent)
C28_CompanionElements ==
    Get(Get(DocCreatives[1], "CompanionAds"), "Companion").items

C28_Document ==
    /\ IsInlineDocument
    /\ Len(DocCreatives) = 1
    /\ IsNone(Get(DocCreatives[1], "Linear"))
    /\ ~IsNone(Get(DocCreatives[1], "CompanionAds"))
    /\ ~IsNone(Get(Get(DocCreatives[1], "CompanionAds"), "Companion"))

C28_CompanionAds == returned.f.ad.f.inline.f.creatives.items[1].f.companion.f.companion_ads.items

C28_CompanionsKept ==
    C28_Document =>
        /\ Accepted
        /\ Len(C28_CompanionAds) = Len(C28_CompanionElements)
        /\ \A i \in DOMAIN C28_CompanionElements :
              /\ C28_CompanionAds[i].f.width = ToInt(Get(C28_CompanionElements[i], "@width")).v
              /\ ~IsNone(Get(C28_CompanionElements[i], "TrackingEvents"))
                    => C28_CompanionAds[i].f.tracking_events
                          = _parse_tracking_events(Get(C28_CompanionElements[i], "TrackingEvents")).ret

\* C29: on a structurally incomplete version 2 document (a VAST element
\* with no Ad, a NonLinearAds element with no NonLinear children, a
\* CompanionAds element with no Companion children, a Linear with no
\* MediaFiles) from_xml_string ends in success or in a validation error,
\* never in any other kind of failure
C29_WithoutAd == args.xml = XmlVast("2.0", EmptyDict.d)

C29_WithoutNonLinear ==
    /\ IsInlineDocument
    /\ Len(DocCreatives) = 1
    /\ ~IsNone(Get(DocCreatives[1], "NonLinearAds"))
    /\ IsNone(Get(Get(DocCreatives[1], "NonLinearAds"), "NonLinear"))

C29_WithoutCompanion ==
    /\ IsInlineDocument
    /\ Len(DocCreatives) = 1
    /\ ~IsNone(Get(DocCreatives[1], "CompanionAds"))
    /\ IsNone(Get(Get(DocCreatives[1], "CompanionAds"), "Companion"))

C29_WithoutMediaFiles ==
    /\ IsInlineDocument
    /\ Len(DocCreatives) = 1
    /\ ~IsNone(Get(DocCreatives[1], "Linear"))
    /\ IsNone(Get(Get(DocCreatives[1], "Linear"), "MediaFiles"))

C29_Incomplete ==
    /\ op = "from_xml_string"
    /\ \/ C29_WithoutAd
       \/ C29_WithoutNonLinear
       \/ C29_WithoutCompanion
       \/ C29_WithoutMediaFiles

C29_NoUnmodeledFault == C29_Incomplete => (Accepted \/ Rejected)

\* C30: each violation names the field that caused it: for a streaming
\* media file an absent min_bitrate yields a violation naming min_bitrate,
\* an absent max_bitrate one naming max_bitrate, and when both are absent
\* the error carries two separate violations, one per field, in that order
C30_Streaming == C21_Ruled /\ instance.f.delivery = STREAMING

C30_Absent ==
    (IF IsNone(instance.f.min_bitrate) THEN <<"min_bitrate">> ELSE <<>>)
    \o (IF IsNone(instance.f.max_bitrate) THEN <<"max_bitrate">> ELSE <<>>)

C30_EachNamesItsField ==
    (C30_Streaming /\ C30_Absent # <<>>) =>
        /\ Rejected
        /\ Len(C21_RuleViolations) = Len(C30_Absent)
        /\ \A i \in DOMAIN C30_Absent :
              /\ Len(C21_RuleViolations[i]) = 1
              /\ C21_RuleViolations[i][1].field = C30_Absent[i]

=============================================================================
